---- MODULE Spec2Model ----
(***************************************************************************)
(* minikv: the per-node storage engine (KeyValueStore over WAL,            *)
(* PersistenceBackend and LockManager) and the worker pool (Router and     *)
(* Worker), modelled at the granularity of the statements that touch       *)
(* shared or durable state.                                                *)
(*                                                                         *)
(*   Spec      one caller thread driving a Store, with crash, clean close  *)
(*             and reconstruction over the same files                      *)
(*   SpecConc  several threads calling set/get/delete/exists               *)
(*   SpecBulk  one thread calling update, another set/delete               *)
(*   SpecLocks threads calling LockManager.lock_multiple and lock          *)
(*   SpecPool  clients submitting to a Router that is started and stopped  *)
(***************************************************************************)
EXTENDS Integers, Sequences, FiniteSets, TLC

\* ------------------------------------------------------------------ bounds
\* Keys are numbered in ascending byte order of the key strings.
Keys == {1, 2}
Vals == {"v1", "v2"}
Threads == {"t1", "t2"}
Main == "t1"

MaxWal == 3        \* lines the WAL file may hold

LockKeys == {1, 2, 3}     \* keys passed to lock_multiple
MaxArgs == 2              \* length of the longest lock_multiple argument list
MaxCalls == 1             \* lock_multiple calls per thread

Workers == Threads         \* Router.workers (num_workers = 2)
Clients == {"c1"}         \* threads that call Router._submit_request
QueueSize == 2            \* queue_size argument of Router.__init__
MaxSubmits == 3           \* submit calls per client

Nodes == {1, 2, 3}        \* node ids of the cluster
NoNode == 0
MaxRequests == 1          \* client requests sent to the nodes
MaxMessages == 3          \* replication requests sent for one client request
VirtualNodes == 2         \* virtual_nodes argument of ConsistentHashRing
RingSize == 16            \* number of values of ConsistentHashRing._hash
MaxCycles == 2            \* iterations of Gateway._anti_entropy_loop
MaxReads == 3             \* read-repair tasks the nodes create
MaxWrites == 2            \* requests the Gateway forwards in SpecQuorum
MaxCopies == 4            \* largest n given to get_nodes_for_replication
MaxLeaves == 3            \* keys of a snapshot given to MerkleTree
MaxCleanups == 1          \* cleanup_unused_locks calls
MaxStorm == 6             \* replication requests of one request in SpecQuorum

NULL == "null"     \* Python None
NoKey == 0         \* key=None of a CLEAR entry
NoThread == "none"

VARIABLES
  cfgWal,      \* enable_wal argument of KeyValueStore.__init__
  cfgDb,       \* persistence argument is not None
  proc,        \* "up" | "closed" | "crashed": the Store object of the process
  data,        \* KeyValueStore._data
  locks,       \* LockManager._locks: key -> RLock (owner, count)
  globalLock,  \* KeyValueStore._global_lock (RLock)
  walFile,     \* lines of the WAL file, in file order
  walHandle,   \* WAL._file_handle is not None
  walEnabled,  \* WAL._enabled
  db,          \* rows of kv_store: key -> JSON text
  dbConn,      \* SQLitePersistence.conn is not None
  pc,          \* per thread: position inside the current call
  op,          \* per thread: the current (or last returned) call
  todo,        \* per thread: items of update() not yet iterated
  result,      \* per thread: return value of the last returned call
  last,        \* history: per key, the last mutating call issued on it
  base,        \* history: _data as left by the constructor of this Store
  eff,         \* history: per thread, effects of the current call, in order
  calls,       \* per thread: lock_multiple calls made so far
  reaped,      \* per cleanup_unused_locks call: the lock objects it deleted
  running,     \* Router._running
  queue,       \* Router.request_queue, oldest request first
  wrun,        \* per worker: Worker.running
  wst,         \* per worker: position of the worker thread in Worker._run
  cur,         \* per worker: the request taken from the queue
  spc,         \* position of the thread that calls Router.stop
  si,          \* loop index of Router.stop
  cpc,         \* per client: position inside Router._submit_request
  creq,        \* per client: the request being submitted
  cout,        \* per client: outcome of the last submit
  nup,         \* per node: the NodeServer process is running
  ndata,       \* per node: the data of its Store
  peers,       \* per node: NodeServer.peers (ids)
  tasks,       \* replication tasks created by asyncio.create_task, not yet run
  msgs,        \* replication requests sent to a peer, not yet answered
  replication_failures,  \* per node: NodeServer.replication_failures
  nresp,       \* per client request: the node's response
  nextId,      \* number of the next client request
  sent,        \* history: per client request, replication requests sent
  failed,      \* history: per node, replication requests that failed
  repairs,     \* read-repair tasks created by asyncio.create_task, running
  nread,       \* number of read-repair tasks created so far
  nget,        \* a node's response to the last GET a client sent to it
  healthy_nodes,  \* Gateway.healthy_nodes
  ring,        \* Gateway.hash_ring.ring: hash value -> node id
  hci,         \* the node _health_check_loop checks next
  gresp,       \* the Gateway's response to the last client request
  gwrote,      \* history: the value of the last write the Gateway forwarded
  aesnap,      \* healthy_node_dict of the running anti-entropy iteration
  aei,         \* sync_cluster: number of the pair synced next (0: sleeping)
  cycles,      \* anti-entropy iterations completed
  ndata0,      \* history: the nodes' data when the Gateway started
  merkle,      \* two snapshots and the MerkleTree objects built from them
  lookup       \* the last lookup made on a ConsistentHashRing and its result

storeVars == <<cfgWal, cfgDb, proc, data, locks, globalLock, walFile,
               walHandle, walEnabled, db, dbConn>>
threadVars == <<pc, op, todo, result>>
histVars == <<last, base, eff>>
poolVars == <<running, queue, wrun, wst, cur, spc, si, cpc, creq, cout>>
nodeVars == <<nup, ndata, peers, tasks, msgs, replication_failures, nresp,
              nextId, sent, failed>>
repairVars == <<repairs, nread, nget>>
gatewayVars == <<healthy_nodes, ring, hci, gresp, gwrote>>
aeVars == <<aesnap, aei, cycles, ndata0>>
calcVars == <<merkle, lookup>>
clusterVars == <<nodeVars, repairVars, gatewayVars, aeVars, calcVars>>
callVars == <<calls, reaped>>
otherVars == <<callVars, poolVars, clusterVars>>
vars == <<storeVars, threadVars, histVars, otherVars>>

\* ------------------------------------------------------------ dictionaries
EmptyMap == [x \in {} |-> NULL]

\* dict[key] = value
Put(d, k, v) == [x \in (DOMAIN d) \cup {k} |-> IF x = k THEN v ELSE d[x]]

\* A delete that leaves the key bound.
RemoveNothing(d, k) == d

\* del dict[key] / dict.pop(key, None)
Remove(d, k) == [x \in (DOMAIN d) \ {k} |-> d[x]]

\* dict.get(key)
Lookup(d, k) == IF k \in DOMAIN d THEN d[k] ELSE NULL

\* -------------------------------------------------------------------- JSON
\* json.dumps(value): the text of a value, here a one-element tuple.
json_dumps(v) == <<v>>

\* json.loads(text)
json_loads(s) == s[1]

\* --------------------------------------------------------------------- WAL
WALEntry(operation, key, value) ==
  [operation |-> operation, key |-> key, value |-> value]

\* WALEntry.to_json: one line of the file.
to_json(e) == <<e.operation, e.key, json_dumps(e.value)>>

\* A line cut short by a crash during write().
TornLine == <<"{">>

\* json.loads succeeds on the line
Parses(line) == Len(line) = 3

\* WALEntry.from_json
from_json(line) == WALEntry(line[1], line[2], json_loads(line[3]))

\* WAL._write_entry: open(), write, flush, fsync - only reached when enabled.
write_entry(file, e) == Append(file, to_json(e))

\* WAL.log_set / log_delete / log_clear: silent no-op when disabled.
log_entry(file, enabled, e) == IF enabled THEN write_entry(file, e) ELSE file

\* WAL.replay: every line that parses, in file order.
RECURSIVE replay(_)
replay(file) ==
  IF file = <<>> THEN <<>>
  ELSE IF Parses(Head(file))
       THEN <<from_json(Head(file))>> \o replay(Tail(file))
       ELSE replay(Tail(file))

\* WAL.get_entry_count: number of lines in the file.
get_entry_count(file) == Len(file)

\* ------------------------------------------------------------- persistence
\* SQLitePersistence.save: INSERT OR REPLACE
save(table, k, v) == Put(table, k, json_dumps(v))

\* SQLitePersistence.load_all
load_all(table) == [k \in DOMAIN table |-> json_loads(table[k])]

\* SQLitePersistence.get_size
get_size(table) == Cardinality(DOMAIN table)

\* ------------------------------------------------------------------- locks
FreeLock == [owner |-> NoThread, count |-> 0]

\* LockManager._get_lock: the lock of a key, created on first use.
get_lock(ls, k) == IF k \in DOMAIN ls THEN ls ELSE Put(ls, k, FreeLock)

\* A lock that never makes its caller wait.
CanAcquireAlways(l, t) == TRUE

\* RLock.acquire would not block
CanAcquire(l, t) == l.owner = NoThread \/ l.owner = t

\* RLock.acquire
Acquire(l, t) == [owner |-> t, count |-> l.count + 1]

\* RLock.release
Release(l) ==
  IF l.count = 1 THEN FreeLock ELSE [owner |-> l.owner, count |-> l.count - 1]

KeyLockFree(k, t) == CanAcquire(Lookup(get_lock(locks, k), k), t)

LockKey(k, t) ==
  locks' = [get_lock(locks, k) EXCEPT ![k] = Acquire(@, t)]

UnlockKey(k) == locks' = [locks EXCEPT ![k] = Release(@)]

\* ---------------------------------------------------------------- recovery
\* The body of the replay loop of _recover_from_wal.
apply_entry(d, e) ==
  CASE e.operation = "SET" -> Put(d, e.key, e.value)
    [] e.operation = "DELETE" -> Remove(d, e.key)
    [] e.operation = "CLEAR" -> EmptyMap
    [] OTHER -> d

RECURSIVE apply_entries(_, _)
apply_entries(d, es) ==
  IF es = <<>> THEN d ELSE apply_entries(apply_entry(d, Head(es)), Tail(es))

\* for key, value in self._data.items(): self._persistence.save(key, value)
save_all(table, d) ==
  [k \in (DOMAIN table) \cup (DOMAIN d) |->
     IF k \in DOMAIN d THEN json_dumps(d[k]) ELSE table[k]]

\* KeyValueStore._recover_from_wal: _data starts empty, the log is replayed
\* onto it, the result is saved row by row, the log file is removed.
recover_from_wal ==
  /\ data' = apply_entries(EmptyMap, replay(walFile))
  /\ db' = save_all(db, data')
  /\ walFile' = <<>>
  /\ walHandle' = FALSE
  /\ walEnabled' = TRUE

\* KeyValueStore._load_from_persistence
load_from_persistence ==
  /\ data' = load_all(db)
  /\ UNCHANGED <<db, walFile>>
  /\ walHandle' = cfgWal
  /\ walEnabled' = TRUE

\* KeyValueStore.__init__ over the files that are on disk.
init_store ==
  /\ locks' = EmptyMap
  /\ globalLock' = FreeLock
  /\ dbConn' = cfgDb
  /\ IF cfgWal /\ cfgDb THEN recover_from_wal
     ELSE IF cfgDb THEN load_from_persistence
     ELSE /\ data' = EmptyMap
          /\ walHandle' = cfgWal
          /\ walEnabled' = TRUE
          /\ UNCHANGED <<db, walFile>>

\* ------------------------------------------------------------------ history
Idle == [t \in Threads |-> "idle"]
NoOp == [kind |-> "NONE", key |-> NoKey, val |-> NULL, bulk |-> FALSE]

\* The last mutating call issued on a key: its kind and value, who issued
\* it, whether it has returned to its caller, and whether a Store has been
\* constructed since.
NoCall ==
  [kind |-> "NONE", val |-> NULL, bulk |-> FALSE, th |-> NoThread,
   ack |-> FALSE, old |-> FALSE]

Issued(kind, v, bulk, t) ==
  [kind |-> kind, val |-> v, bulk |-> bulk, th |-> t, ack |-> FALSE,
   old |-> FALSE]

\* The call that thread t is returning from is still the last one on k.
Mine(k, t, kind) == last[k].th = t /\ last[k].kind = kind /\ ~last[k].old

AckKey(k, t, kind) ==
  IF Mine(k, t, kind) THEN [last EXCEPT ![k].ack = TRUE] ELSE last

Aged ==
  [k \in Keys |->
     IF last[k].kind = "NONE" THEN last[k]
     ELSE [last[k] EXCEPT !.old = TRUE]]

\* Mutating calls stop being issued once the log holds MaxWal lines.
CanIssue(n) == Len(walFile) + n <= MaxWal

\* What the calls issued on this Store say key k is bound to: the value of
\* the last SET issued on k unless a DELETE of k or a CLEAR came after it;
\* for a key no call of this Store touched, what the constructor left.
Expect(k) ==
  IF last[k].kind # "NONE" /\ ~last[k].old
  THEN (IF last[k].kind = "SET" THEN last[k].val ELSE NULL)
  ELSE Lookup(base, k)

\* WorkerRequest: operation, key, value, the client that created it (by) and
\* the number of that client's submit call (id), the event and the result.
WorkerRequest(operation, key, value, by, id) ==
  [operation |-> operation, key |-> key, value |-> value, by |-> by,
   id |-> id, event |-> FALSE, result |-> NULL, error |-> NULL]

NoRequest == WorkerRequest("NONE", NoKey, NULL, NoThread, 0)

\* ----------------------------------------------------------------- Init
NoResponse == [node |-> NoNode, op |-> "NONE", status |-> 0, ok |-> FALSE]

NoRead == [node |-> NoNode, key |-> NoKey, value |-> NULL, status |-> 0]

\* NodeServer.__init__ of every node
InitNodes ==
  /\ repairs = {}
  /\ nread = 0
  /\ nget = NoRead
  /\ nup = [n \in Nodes |-> TRUE]
  /\ tasks = {}
  /\ msgs = {}
  /\ replication_failures = [n \in Nodes |-> 0]
  /\ nresp = [r \in 1..(MaxRequests + MaxWrites) |-> NoResponse]
  /\ nextId = 1
  /\ sent = [r \in 1..(MaxRequests + MaxWrites) |-> 0]
  /\ failed = [n \in Nodes |-> 0]

InitStore ==
  /\ cfgWal \in BOOLEAN
  /\ cfgDb \in BOOLEAN
  /\ proc = "up"
  /\ data = EmptyMap
  /\ locks = EmptyMap
  /\ globalLock = FreeLock
  /\ walFile = <<>>
  /\ walHandle = (cfgWal /\ ~cfgDb)
  /\ walEnabled = TRUE
  /\ db = EmptyMap
  /\ dbConn = cfgDb
  /\ pc = Idle
  /\ op = [t \in Threads |-> NoOp]
  /\ todo = [t \in Threads |-> <<>>]
  /\ result = [t \in Threads |-> NULL]
  /\ last = [k \in Keys |-> NoCall]
  /\ base = EmptyMap
  /\ eff = [t \in Threads |-> <<>>]
  /\ calls = [t \in Threads |-> 0]
  /\ reaped = <<>>
  /\ running = FALSE
  /\ queue = <<>>
  /\ wrun = [w \in Workers |-> FALSE]
  /\ wst = [w \in Workers |-> "new"]
  /\ cur = [w \in Workers |-> NoRequest]
  /\ spc = "idle"
  /\ si = 0
  /\ cpc = [c \in Clients |-> "idle"]
  /\ creq = [c \in Clients |-> NoRequest]
  /\ cout = [c \in Clients |-> NULL]

\* ConsistentHashRing._hash of the virtual node key f"{node_id}:{i}"
hash_virtual(n, i) == (5 * n + 7 * i) % RingSize

\* ConsistentHashRing._hash of a key
hash_key(k) == (3 * k + 1) % RingSize

\* The hash values of the virtual nodes of node n.
Points(n) == {hash_virtual(n, i) : i \in 0..(VirtualNodes - 1)}

\* add_node: self.ring[hash_value] = node_id for the hash values ps
add_points(r, n, ps) ==
  [h \in (DOMAIN r) \cup ps |-> IF h \in ps THEN n ELSE r[h]]

\* remove_node: if hash_value in self.ring: del self.ring[hash_value]
remove_points(r, ps) == [h \in (DOMAIN r) \ ps |-> r[h]]

\* ConsistentHashRing.add_node
add_node(r, n) == add_points(r, n, Points(n))

\* A remove_node that deletes the node's first virtual point only.
remove_node_first_point(r, n) == remove_points(r, {hash_virtual(n, 0)})

\* ConsistentHashRing.remove_node
remove_node(r, n) == remove_points(r, Points(n))

\* A _hash under which virtual node keys of different nodes collide:
\* "1:1" with "2:0" and "2:1" with "3:0".
tie_hash(n, i) == (5 * n + 5 * i) % RingSize

TiePoints(n) == {tie_hash(n, i) : i \in 0..(VirtualNodes - 1)}

\* No lookup has been made on the ring.
NoLookup ==
  [op |-> "NONE", key |-> NoKey, n |-> 0, node |-> NoNode, nodes |-> <<>>]

NoReply ==
  [op |-> "NONE", key |-> NoKey, status |-> 0, node |-> NoNode,
   value |-> NULL]

\* Gateway.__init__
InitGateway ==
  /\ healthy_nodes = Nodes
  /\ ring = add_node(add_node(add_node(EmptyMap, 1), 2), 3)
  /\ hci = 1
  /\ gresp = NoReply
  /\ gwrote = NULL
  /\ lookup = NoLookup

\* No MerkleTree has been built.
NoTrees ==
  [data1 |-> EmptyMap, data2 |-> EmptyMap, built |-> FALSE, root1 |-> <<>>,
   root2 |-> <<>>,
   divergent |-> [only_in_self |-> {}, only_in_other |-> {},
                  different_values |-> {}]]

\* Gateway._anti_entropy_loop before its first iteration
InitAntiEntropy ==
  /\ merkle = NoTrees
  /\ aesnap = {}
  /\ aei = 0
  /\ cycles = 0
  /\ ndata0 = ndata

\* ClusterManager.register_peers has registered every node with every other.
AllPeers == [n \in Nodes |-> Nodes \ {n}]

Init ==
  /\ InitStore
  /\ InitNodes
  /\ InitGateway
  /\ peers = [n \in Nodes |-> {}]
  /\ ndata = [n \in Nodes |-> EmptyMap]
  /\ InitAntiEntropy

\* ------------------------------------------------------- thread bookkeeping
Goto(t, label) == pc' = [pc EXCEPT ![t] = label]
Effect(t, e) == eff' = [eff EXCEPT ![t] = Append(@, e)]
Returns(t, r) == result' = [result EXCEPT ![t] = r]
Logs == cfgWal /\ walEnabled

\* Some thread is inside update(), between disable() and enable().
WindowOpen == \E u \in Threads : op[u].bulk

\* History of a log step: whether an update window was open, whether a line
\* was written.
LogEffect(t) ==
  eff' = [eff EXCEPT ![t] = @ \o (IF WindowOpen THEN <<"window">> ELSE <<>>)
                              \o (IF Logs THEN <<"wal">> ELSE <<>>)]

\* The call of thread t is a member of update(): control returns to its loop.
AfterCall(t) == IF op[t].bulk THEN "upd_loop" ELSE "idle"

\* ------------------------------------------------------ KeyValueStore.set
\* with self._lock_manager.lock(key):
set_acquire(t, k, v) ==
  /\ proc = "up" /\ pc[t] = "idle"
  /\ CanIssue(1)
  /\ KeyLockFree(k, t)
  /\ LockKey(k, t)
  /\ op' = [op EXCEPT ![t] = [kind |-> "SET", key |-> k, val |-> v,
                              bulk |-> FALSE]]
  /\ last' = [last EXCEPT ![k] = Issued("SET", v, FALSE, t)]
  /\ eff' = [eff EXCEPT ![t] = <<>>]
  /\ Returns(t, NULL)
  /\ Goto(t, "set_wal")
  /\ UNCHANGED <<cfgWal, cfgDb, proc, data, globalLock, walFile, walHandle,
                 walEnabled, db, dbConn, todo, base>>
  /\ UNCHANGED otherVars

\* if self._wal: self._wal.log_set(key, value)
set_wal(t) ==
  /\ pc[t] = "set_wal"
  /\ walFile' = IF cfgWal
                THEN log_entry(walFile, walEnabled,
                               WALEntry("SET", op[t].key, op[t].val))
                ELSE walFile
  /\ walHandle' = (walHandle \/ Logs)
  /\ LogEffect(t)
  /\ Goto(t, "set_mem")
  /\ UNCHANGED <<cfgWal, cfgDb, proc, data, locks, globalLock, walEnabled,
                 db, dbConn, op, todo, result, last, base>>
  /\ UNCHANGED otherVars

\* self._data[key] = value
set_mem(t) ==
  /\ pc[t] = "set_mem"
  /\ data' = Put(data, op[t].key, op[t].val)
  /\ Effect(t, "mem")
  /\ Goto(t, "set_db")
  /\ UNCHANGED <<cfgWal, cfgDb, proc, locks, globalLock, walFile, walHandle,
                 walEnabled, db, dbConn, op, todo, result, last, base>>
  /\ UNCHANGED otherVars

\* if self._persistence: self._persistence.save(key, value)
set_db(t) ==
  /\ pc[t] = "set_db"
  /\ db' = IF cfgDb THEN save(db, op[t].key, op[t].val) ELSE db
  /\ eff' = IF cfgDb THEN [eff EXCEPT ![t] = Append(@, "db")] ELSE eff
  /\ Goto(t, "set_ret")
  /\ UNCHANGED <<cfgWal, cfgDb, proc, data, locks, globalLock, walFile,
                 walHandle, walEnabled, dbConn, op, todo, result, last, base>>
  /\ UNCHANGED otherVars

\* leaving the with block releases the key lock; set returns None
set_ret(t) ==
  /\ pc[t] = "set_ret"
  /\ UnlockKey(op[t].key)
  /\ Returns(t, NULL)
  /\ last' = IF op[t].bulk THEN last ELSE AckKey(op[t].key, t, "SET")
  /\ Effect(t, "ack")
  /\ Goto(t, AfterCall(t))
  /\ UNCHANGED <<cfgWal, cfgDb, proc, data, globalLock, walFile, walHandle,
                 walEnabled, db, dbConn, op, todo, base>>
  /\ UNCHANGED otherVars

\* ------------------------------------------------------ KeyValueStore.get
get_acquire(t, k) ==
  /\ proc = "up" /\ pc[t] = "idle"
  /\ KeyLockFree(k, t)
  /\ LockKey(k, t)
  /\ op' = [op EXCEPT ![t] = [kind |-> "GET", key |-> k, val |-> NULL,
                              bulk |-> FALSE, pre |-> Expect(k)]]
  /\ Returns(t, NULL)
  /\ Goto(t, "get_ret")
  /\ UNCHANGED <<cfgWal, cfgDb, proc, data, globalLock, walFile, walHandle,
                 walEnabled, db, dbConn, todo, histVars>>
  /\ UNCHANGED otherVars

\* return self._data.get(key)
get_ret(t) ==
  /\ pc[t] = "get_ret"
  /\ Returns(t, Lookup(data, op[t].key))
  /\ UnlockKey(op[t].key)
  /\ Goto(t, "idle")
  /\ UNCHANGED <<cfgWal, cfgDb, proc, data, globalLock, walFile, walHandle,
                 walEnabled, db, dbConn, op, todo, histVars>>
  /\ UNCHANGED otherVars

\* --------------------------------------------------- KeyValueStore.exists
exists_acquire(t, k) ==
  /\ proc = "up" /\ pc[t] = "idle"
  /\ KeyLockFree(k, t)
  /\ LockKey(k, t)
  /\ op' = [op EXCEPT ![t] = [kind |-> "EXISTS", key |-> k, val |-> NULL,
                              bulk |-> FALSE, pre |-> Expect(k)]]
  /\ Returns(t, NULL)
  /\ Goto(t, "exists_ret")
  /\ UNCHANGED <<cfgWal, cfgDb, proc, data, globalLock, walFile, walHandle,
                 walEnabled, db, dbConn, todo, histVars>>
  /\ UNCHANGED otherVars

\* return key in self._data
exists_ret(t) ==
  /\ pc[t] = "exists_ret"
  /\ Returns(t, op[t].key \in DOMAIN data)
  /\ UnlockKey(op[t].key)
  /\ Goto(t, "idle")
  /\ UNCHANGED <<cfgWal, cfgDb, proc, data, globalLock, walFile, walHandle,
                 walEnabled, db, dbConn, op, todo, histVars>>
  /\ UNCHANGED otherVars

\* ----------------------------------------------------- KeyValueStore.size
size_acquire(t) ==
  /\ proc = "up" /\ pc[t] = "idle"
  /\ CanAcquire(globalLock, t)
  /\ globalLock' = Acquire(globalLock, t)
  /\ op' = [op EXCEPT ![t] = [kind |-> "SIZE", key |-> NoKey, val |-> NULL,
                              bulk |-> FALSE]]
  /\ Returns(t, NULL)
  /\ Goto(t, "size_ret")
  /\ UNCHANGED <<cfgWal, cfgDb, proc, data, locks, walFile, walHandle,
                 walEnabled, db, dbConn, todo, histVars>>
  /\ UNCHANGED otherVars

\* return len(self._data)
size_ret(t) ==
  /\ pc[t] = "size_ret"
  /\ Returns(t, Cardinality(DOMAIN data))
  /\ globalLock' = Release(globalLock)
  /\ Goto(t, "idle")
  /\ UNCHANGED <<cfgWal, cfgDb, proc, data, locks, walFile, walHandle,
                 walEnabled, db, dbConn, op, todo, histVars>>
  /\ UNCHANGED otherVars

\* --------------------------------------------------- KeyValueStore.delete
delete_acquire(t, k) ==
  /\ proc = "up" /\ pc[t] = "idle"
  /\ CanIssue(1)
  /\ KeyLockFree(k, t)
  /\ LockKey(k, t)
  /\ op' = [op EXCEPT ![t] = [kind |-> "DELETE", key |-> k, val |-> NULL,
                              bulk |-> FALSE, pre |-> Expect(k)]]
  /\ last' = [last EXCEPT ![k] = Issued("DELETE", NULL, FALSE, t)]
  /\ eff' = [eff EXCEPT ![t] = <<>>]
  /\ Returns(t, NULL)
  /\ Goto(t, "delete_chk")
  /\ UNCHANGED <<cfgWal, cfgDb, proc, data, globalLock, walFile, walHandle,
                 walEnabled, db, dbConn, todo, base>>
  /\ UNCHANGED otherVars

\* if key not in self._data: return False
delete_chk(t) ==
  /\ pc[t] = "delete_chk"
  /\ IF op[t].key \in DOMAIN data
     THEN /\ Goto(t, "delete_wal")
          /\ UNCHANGED <<locks, result, last, eff>>
     ELSE /\ UnlockKey(op[t].key)
          /\ Returns(t, FALSE)
          /\ last' = AckKey(op[t].key, t, "DELETE")
          /\ Effect(t, "ack")
          /\ Goto(t, "idle")
  /\ UNCHANGED <<cfgWal, cfgDb, proc, data, globalLock, walFile, walHandle,
                 walEnabled, db, dbConn, op, todo, base>>
  /\ UNCHANGED otherVars

\* if self._wal: self._wal.log_delete(key)
delete_wal(t) ==
  /\ pc[t] = "delete_wal"
  /\ walFile' = IF cfgWal
                THEN log_entry(walFile, walEnabled,
                               WALEntry("DELETE", op[t].key, NULL))
                ELSE walFile
  /\ walHandle' = (walHandle \/ Logs)
  /\ LogEffect(t)
  /\ Goto(t, "delete_mem")
  /\ UNCHANGED <<cfgWal, cfgDb, proc, data, locks, globalLock, walEnabled,
                 db, dbConn, op, todo, result, last, base>>
  /\ UNCHANGED otherVars

\* del self._data[key]: raises KeyError when the key is gone by now; the
\* with block releases the lock while the exception propagates.
delete_mem(t) ==
  /\ pc[t] = "delete_mem"
  /\ IF op[t].key \in DOMAIN data
     THEN /\ data' = Remove(data, op[t].key)
          /\ Effect(t, "mem")
          /\ Goto(t, "delete_db")
          /\ UNCHANGED <<locks, result>>
     ELSE /\ UnlockKey(op[t].key)
          /\ Returns(t, "KeyError")
          /\ Effect(t, "raise")
          /\ Goto(t, "idle")
          /\ UNCHANGED data
  /\ UNCHANGED <<cfgWal, cfgDb, proc, globalLock, walFile, walHandle,
                 walEnabled, db, dbConn, op, todo, last, base>>
  /\ UNCHANGED otherVars

\* if self._persistence: self._persistence.delete(key)
delete_db(t) ==
  /\ pc[t] = "delete_db"
  /\ db' = IF cfgDb THEN Remove(db, op[t].key) ELSE db
  /\ eff' = IF cfgDb THEN [eff EXCEPT ![t] = Append(@, "db")] ELSE eff
  /\ Goto(t, "delete_ret")
  /\ UNCHANGED <<cfgWal, cfgDb, proc, data, locks, globalLock, walFile,
                 walHandle, walEnabled, dbConn, op, todo, result, last, base>>
  /\ UNCHANGED otherVars

\* return True
delete_ret(t) ==
  /\ pc[t] = "delete_ret"
  /\ UnlockKey(op[t].key)
  /\ Returns(t, TRUE)
  /\ last' = AckKey(op[t].key, t, "DELETE")
  /\ Effect(t, "ack")
  /\ Goto(t, "idle")
  /\ UNCHANGED <<cfgWal, cfgDb, proc, data, globalLock, walFile, walHandle,
                 walEnabled, db, dbConn, op, todo, base>>
  /\ UNCHANGED otherVars

\* ---------------------------------------------------- KeyValueStore.clear
\* with self._global_lock:
clear_acquire(t) ==
  /\ proc = "up" /\ pc[t] = "idle"
  /\ CanIssue(1)
  /\ CanAcquire(globalLock, t)
  /\ globalLock' = Acquire(globalLock, t)
  /\ op' = [op EXCEPT ![t] = [kind |-> "CLEAR", key |-> NoKey, val |-> NULL,
                              bulk |-> FALSE]]
  /\ last' = [k \in Keys |-> Issued("CLEAR", NULL, FALSE, t)]
  /\ eff' = [eff EXCEPT ![t] = <<>>]
  /\ Returns(t, NULL)
  /\ Goto(t, "clear_wal")
  /\ UNCHANGED <<cfgWal, cfgDb, proc, data, locks, walFile, walHandle,
                 walEnabled, db, dbConn, todo, base>>
  /\ UNCHANGED otherVars

\* if self._wal: self._wal.log_clear()
clear_wal(t) ==
  /\ pc[t] = "clear_wal"
  /\ walFile' = IF cfgWal
                THEN log_entry(walFile, walEnabled,
                               WALEntry("CLEAR", NoKey, NULL))
                ELSE walFile
  /\ walHandle' = (walHandle \/ Logs)
  /\ LogEffect(t)
  /\ Goto(t, "clear_mem")
  /\ UNCHANGED <<cfgWal, cfgDb, proc, data, locks, globalLock, walEnabled,
                 db, dbConn, op, todo, result, last, base>>
  /\ UNCHANGED otherVars

\* self._data.clear()
clear_mem(t) ==
  /\ pc[t] = "clear_mem"
  /\ data' = EmptyMap
  /\ Effect(t, "mem")
  /\ Goto(t, "clear_db")
  /\ UNCHANGED <<cfgWal, cfgDb, proc, locks, globalLock, walFile, walHandle,
                 walEnabled, db, dbConn, op, todo, result, last, base>>
  /\ UNCHANGED otherVars

\* if self._persistence: self._persistence.clear()
clear_db(t) ==
  /\ pc[t] = "clear_db"
  /\ db' = IF cfgDb THEN EmptyMap ELSE db
  /\ eff' = IF cfgDb THEN [eff EXCEPT ![t] = Append(@, "db")] ELSE eff
  /\ Goto(t, "clear_ret")
  /\ UNCHANGED <<cfgWal, cfgDb, proc, data, locks, globalLock, walFile,
                 walHandle, walEnabled, dbConn, op, todo, result, last, base>>
  /\ UNCHANGED otherVars

\* leaving the with block releases the global lock; clear returns None
clear_ret(t) ==
  /\ pc[t] = "clear_ret"
  /\ globalLock' = Release(globalLock)
  /\ Returns(t, NULL)
  /\ last' = [k \in Keys |->
               IF Mine(k, t, "CLEAR") THEN [last[k] EXCEPT !.ack = TRUE]
               ELSE last[k]]
  /\ Effect(t, "ack")
  /\ Goto(t, "idle")
  /\ UNCHANGED <<cfgWal, cfgDb, proc, data, locks, walFile, walHandle,
                 walEnabled, db, dbConn, op, todo, base>>
  /\ UNCHANGED otherVars

\* --------------------------------------------------- KeyValueStore.update
\* The items of a dict argument: pairs with distinct keys, in dict order.
UpdateArgs ==
  {<<<<k, v>>>> : k \in Keys, v \in Vals} \cup
  {s \in {<<<<k1, v1>>, <<k2, v2>>>> :
            k1 \in Keys, k2 \in Keys, v1 \in Vals, v2 \in Vals} :
     s[1][1] # s[2][1]}

\* if self._wal: self._wal.disable()
update_begin(t, items) ==
  /\ proc = "up" /\ pc[t] = "idle"
  /\ CanIssue(Len(items))
  /\ walEnabled' = IF cfgWal THEN FALSE ELSE walEnabled
  /\ todo' = [todo EXCEPT ![t] = items]
  /\ op' = [op EXCEPT ![t] = [kind |-> "UPDATE", key |-> NoKey, val |-> NULL,
                              bulk |-> TRUE]]
  /\ Returns(t, NULL)
  /\ Goto(t, "upd_loop")
  /\ UNCHANGED <<cfgWal, cfgDb, proc, data, locks, globalLock, walFile,
                 walHandle, db, dbConn, histVars>>
  /\ UNCHANGED otherVars

\* for key, value in data.items(): self.set(key, value) - entering set
update_set(t) ==
  /\ pc[t] = "upd_loop" /\ todo[t] # <<>>
  /\ LET k == Head(todo[t])[1]
         v == Head(todo[t])[2]
     IN /\ KeyLockFree(k, t)
        /\ LockKey(k, t)
        /\ op' = [op EXCEPT ![t] = [kind |-> "SET", key |-> k, val |-> v,
                                    bulk |-> TRUE]]
        /\ last' = [last EXCEPT ![k] = Issued("SET", v, TRUE, t)]
  /\ todo' = [todo EXCEPT ![t] = Tail(@)]
  /\ eff' = [eff EXCEPT ![t] = <<>>]
  /\ Returns(t, NULL)
  /\ Goto(t, "set_wal")
  /\ UNCHANGED <<cfgWal, cfgDb, proc, data, globalLock, walFile, walHandle,
                 walEnabled, db, dbConn, base>>
  /\ UNCHANGED otherVars

\* finally: self._wal.enable(); self._wal.checkpoint() - update returns None
update_finally(t) ==
  /\ pc[t] = "upd_loop" /\ todo[t] = <<>>
  /\ walEnabled' = IF cfgWal THEN TRUE ELSE walEnabled
  /\ last' = [k \in Keys |->
               IF Mine(k, t, "SET") /\ last[k].bulk
               THEN [last[k] EXCEPT !.ack = TRUE] ELSE last[k]]
  /\ op' = [op EXCEPT ![t] = [kind |-> "UPDATE", key |-> NoKey, val |-> NULL,
                              bulk |-> FALSE]]
  /\ Returns(t, NULL)
  /\ Goto(t, "idle")
  /\ UNCHANGED <<cfgWal, cfgDb, proc, data, locks, globalLock, walFile,
                 walHandle, db, dbConn, todo, base, eff>>
  /\ UNCHANGED otherVars

\* ------------------------------------------------------------- life cycle
\* The outcomes of a WAL._write_entry that raises OSError: nothing reached
\* the file (write failed), a part of the line did (flush failed), or the
\* whole line did (os.fsync failed).
FailedWrites(t) ==
  {walFile, Append(walFile, TornLine),
   write_entry(walFile, WALEntry(op[t].kind, op[t].key, op[t].val))}

\* self._wal.log_set / log_delete / log_clear raises OSError out of
\* _write_entry: the exception leaves set, delete or clear through its with
\* block, which releases the key lock (the global lock for clear).
wal_write_fails(t, file) ==
  /\ pc[t] \in {"set_wal", "delete_wal", "clear_wal"}
  /\ Logs /\ ~op[t].bulk
  /\ file \in FailedWrites(t)
  /\ walFile' = file
  /\ walHandle' = TRUE
  /\ IF op[t].kind = "CLEAR"
     THEN globalLock' = Release(globalLock) /\ UNCHANGED locks
     ELSE UnlockKey(op[t].key) /\ UNCHANGED globalLock
  /\ Returns(t, "OSError")
  /\ Effect(t, "raise")
  /\ Goto(t, "idle")
  /\ UNCHANGED <<cfgWal, cfgDb, proc, data, walEnabled, db, dbConn, op, todo,
                 last, base>>
  /\ UNCHANGED otherVars

AllIdle == \A t \in Threads : pc[t] = "idle"

WalSteps == {"set_wal", "delete_wal", "clear_wal"}

\* The process dies: memory is lost, the files stay. A write() that was in
\* progress may leave a partial last line.
crash ==
  /\ proc = "up"
  /\ proc' = "crashed"
  /\ walFile' \in
       IF Logs /\ \E t \in Threads : pc[t] \in WalSteps
       THEN {walFile, Append(walFile, TornLine)}
       ELSE {walFile}
  /\ data' = EmptyMap
  /\ locks' = EmptyMap
  /\ globalLock' = FreeLock
  /\ walHandle' = FALSE
  /\ walEnabled' = TRUE
  /\ dbConn' = FALSE
  /\ pc' = Idle
  /\ op' = [t \in Threads |-> NoOp]
  /\ todo' = [t \in Threads |-> <<>>]
  /\ result' = [t \in Threads |-> NULL]
  /\ eff' = [t \in Threads |-> <<>>]
  /\ base' = EmptyMap
  /\ UNCHANGED <<cfgWal, cfgDb, db, last>>
  /\ UNCHANGED otherVars

\* KeyValueStore.checkpoint: flush and fsync the log, count lines and rows.
checkpoint_stats ==
  [wal_entries |-> IF cfgWal THEN get_entry_count(walFile) ELSE 0,
   persisted_keys |-> IF cfgDb THEN get_size(db) ELSE 0]

\* KeyValueStore.close: checkpoint(), WAL.close(), persistence.disconnect()
close ==
  /\ proc = "up" /\ AllIdle
  /\ proc' = "closed"
  /\ walHandle' = FALSE
  /\ dbConn' = FALSE
  /\ result' = [result EXCEPT ![Main] = checkpoint_stats]
  /\ op' = [op EXCEPT ![Main] = [kind |-> "CLOSE", key |-> NoKey,
                                 val |-> NULL, bulk |-> FALSE]]
  /\ UNCHANGED <<cfgWal, cfgDb, data, locks, globalLock, walFile, walEnabled,
                 db, pc, todo, histVars>>
  /\ UNCHANGED otherVars

\* A new process constructs a Store over the files left by a crash.
restart ==
  /\ proc = "crashed"
  /\ init_store
  /\ proc' = "up"
  /\ base' = data'
  /\ last' = Aged
  /\ UNCHANGED <<cfgWal, cfgDb, pc, op, todo, result, eff>>
  /\ UNCHANGED otherVars

\* A new Store is constructed over the files of a closed one.
reopen ==
  /\ proc = "closed"
  /\ init_store
  /\ proc' = "up"
  /\ base' = data'
  /\ last' = Aged
  /\ pc' = Idle
  /\ op' = [t \in Threads |-> NoOp]
  /\ todo' = [t \in Threads |-> <<>>]
  /\ result' = [t \in Threads |-> NULL]
  /\ eff' = [t \in Threads |-> <<>>]
  /\ UNCHANGED <<cfgWal, cfgDb>>
  /\ UNCHANGED otherVars

\* ------------------------------------------------------------ one thread
Call(t) ==
  \/ \E k \in Keys, v \in Vals : set_acquire(t, k, v)
  \/ \E k \in Keys : get_acquire(t, k)
  \/ \E k \in Keys : exists_acquire(t, k)
  \/ \E k \in Keys : delete_acquire(t, k)
  \/ size_acquire(t)
  \/ clear_acquire(t)

Step(t) ==
  \/ set_wal(t) \/ set_mem(t) \/ set_db(t) \/ set_ret(t)
  \/ get_ret(t) \/ exists_ret(t) \/ size_ret(t)
  \/ delete_chk(t) \/ delete_wal(t) \/ delete_mem(t) \/ delete_db(t)
  \/ delete_ret(t)
  \/ clear_wal(t) \/ clear_mem(t) \/ clear_db(t) \/ clear_ret(t)

\* update() and the set calls it makes
Bulk(t) ==
  \/ \E items \in UpdateArgs : update_begin(t, items)
  \/ update_set(t)
  \/ update_finally(t)

\* ------------------------------------------------ LockManager.lock_multiple
Range(ks) == {ks[i] : i \in 1..Len(ks)}
Min(S) == CHOOSE m \in S : \A x \in S : m <= x

\* sorted(S)
RECURSIVE sorted(_)
sorted(S) == IF S = {} THEN <<>> ELSE <<Min(S)>> \o sorted(S \ {Min(S)})

\* The keys in the order the caller gave them, each once.
RECURSIVE given_order(_)
given_order(ks) ==
  IF ks = <<>> THEN <<>>
  ELSE LET rest == given_order(Tail(ks))
       IN  <<Head(ks)>> \o SelectSeq(rest, LAMBDA x : x # Head(ks))

\* sorted_keys = sorted(set(keys))
sorted_keys(ks) == sorted(Range(ks))

\* Argument lists of lock_multiple: any order, duplicates allowed.
LockArgs == UNION {[1..n -> LockKeys] : n \in 0..MaxArgs}

RECURSIVE get_locks(_, _)
get_locks(ls, ks) ==
  IF ks = <<>> THEN ls ELSE get_locks(get_lock(ls, Head(ks)), Tail(ks))

\* A thread keeps the lock objects _get_lock gave it in local variables. The
\* object it was given for key k after era calls of cleanup_unused_locks is
\* still the entry of self._locks, or was deleted by a later call: the
\* number of that call, 0 for the entry of self._locks.
Deleted(era, k) ==
  LET G == {g \in (era + 1)..Len(reaped) : k \in DOMAIN reaped[g]}
  IN  IF G = {} THEN 0 ELSE Min(G)

LockObject(era, k) ==
  IF Deleted(era, k) = 0 THEN locks[k] ELSE reaped[Deleted(era, k)][k]

StoreObject(era, k, l) ==
  IF Deleted(era, k) = 0
  THEN locks' = [locks EXCEPT ![k] = l] /\ UNCHANGED reaped
  ELSE reaped' = [reaped EXCEPT ![Deleted(era, k)][k] = l] /\ UNCHANGED locks

\* lock.acquire() on the object the thread was given
AcquireObject(era, k, t) == StoreObject(era, k, Acquire(LockObject(era, k), t))

\* lock.release() on the object the thread was given
ReleaseObject(era, k) == StoreObject(era, k, Release(LockObject(era, k)))

\* The keys whose locks lock_multiple has acquired so far.
Held(t) == {op[t].keys[i] : i \in 1..op[t].held}

lockFrame ==
  UNCHANGED <<cfgWal, cfgDb, proc, data, globalLock, walFile, walHandle,
              walEnabled, db, dbConn, todo, result, histVars, poolVars,
              clusterVars>>

\* sorted_keys = sorted(set(keys)); locks = [self._get_lock(key) for ...]
lock_multiple_begin(t, ks) ==
  /\ pc[t] = "idle" /\ calls[t] < MaxCalls
  /\ calls' = [calls EXCEPT ![t] = @ + 1]
  /\ op' = [op EXCEPT ![t] = [kind |-> "LOCK_MULTIPLE", key |-> NoKey,
                              val |-> NULL, bulk |-> FALSE,
                              keys |-> sorted_keys(ks), held |-> 0,
                              mixed |-> (ks # sorted_keys(ks)),
                              era |-> Len(reaped), inner |-> 0]]
  /\ locks' = get_locks(locks, sorted_keys(ks))
  /\ Goto(t, "lm_acquire")
  /\ UNCHANGED reaped
  /\ lockFrame

\* for lock in locks: lock.acquire()
lock_multiple_acquire(t) ==
  /\ pc[t] = "lm_acquire" /\ op[t].held < Len(op[t].keys)
  /\ CanAcquire(LockObject(op[t].era, op[t].keys[op[t].held + 1]), t)
  /\ AcquireObject(op[t].era, op[t].keys[op[t].held + 1], t)
  /\ op' = [op EXCEPT ![t].held = @ + 1]
  /\ UNCHANGED <<pc, calls>>
  /\ lockFrame

\* yield: all locks are held, the caller's block runs
lock_multiple_yield(t) ==
  /\ pc[t] = "lm_acquire" /\ op[t].held = Len(op[t].keys)
  /\ Goto(t, "lm_body")
  /\ UNCHANGED <<locks, op, callVars>>
  /\ lockFrame

\* with lock_manager.lock(key) inside the block, on a key already held
lock_acquire(t, k) ==
  /\ pc[t] = "lm_body" /\ k \in Held(t)
  /\ KeyLockFree(k, t)
  /\ LockKey(k, t)
  /\ op' = [op EXCEPT ![t].key = k, ![t].inner = Len(reaped)]
  /\ Goto(t, "lm_nested")
  /\ UNCHANGED callVars
  /\ lockFrame

\* finally: lock.release() of lock()
lock_release(t) ==
  /\ pc[t] = "lm_nested"
  /\ ReleaseObject(op[t].inner, op[t].key)
  /\ Goto(t, "lm_release")
  /\ UNCHANGED <<op, calls>>
  /\ lockFrame

\* the caller's block ends
lock_multiple_exit(t) ==
  /\ pc[t] = "lm_body"
  /\ Goto(t, "lm_release")
  /\ UNCHANGED <<locks, op, callVars>>
  /\ lockFrame

\* finally: for lock in reversed(locks): lock.release()
lock_multiple_release(t) ==
  /\ pc[t] = "lm_release" /\ op[t].held > 0
  /\ ReleaseObject(op[t].era, op[t].keys[op[t].held])
  /\ op' = [op EXCEPT ![t].held = @ - 1]
  /\ UNCHANGED <<pc, calls>>
  /\ lockFrame

\* lock_multiple returns: its locals are gone
lock_multiple_end(t) ==
  /\ pc[t] = "lm_release" /\ op[t].held = 0
  /\ op' = [op EXCEPT ![t] = NoOp]
  /\ Goto(t, "idle")
  /\ UNCHANGED <<locks, callVars>>
  /\ lockFrame

\* LockManager.cleanup_unused_locks called by thread t between two of its
\* statements: lock._is_owned() is true only for a lock the calling thread
\* holds, so every other entry is deleted from self._locks.
cleanup_unused_locks(t) ==
  LET unused_keys == {k \in DOMAIN locks : locks[k].owner # t}
  IN  /\ pc[t] \in {"idle", "lm_body"}
      /\ Len(reaped) < MaxCleanups
      /\ locks' = [k \in (DOMAIN locks) \ unused_keys |-> locks[k]]
      /\ reaped' = Append(reaped, [k \in unused_keys |-> locks[k]])
      /\ UNCHANGED <<pc, op, calls>>
      /\ lockFrame

LockStep(t) ==
  \/ lock_multiple_acquire(t)
  \/ lock_multiple_yield(t)
  \/ \E k \in LockKeys : lock_acquire(t, k)
  \/ lock_release(t)
  \/ lock_multiple_exit(t)
  \/ lock_multiple_release(t)
  \/ lock_multiple_end(t)

\* ------------------------------------------------------------ Router, Worker
WorkerList == <<"t1", "t2">>     \* Router.workers, in list order
NumWorkers == Len(WorkerList)

poolFrame ==
  UNCHANGED <<storeVars, threadVars, histVars, callVars, clusterVars>>

\* Router.start
router_start ==
  /\ ~running /\ spc = "idle"
  /\ running' = TRUE
  /\ wrun' = [w \in Workers |-> TRUE]
  /\ wst' = [w \in Workers |-> "loop"]
  /\ UNCHANGED <<queue, cur, spc, si, cpc, creq, cout>>
  /\ poolFrame

\* Worker._run: while self.running
worker_loop(w) ==
  /\ wst[w] = "loop"
  /\ wst' = [wst EXCEPT ![w] = IF wrun[w] THEN "get" ELSE "exited"]
  /\ UNCHANGED <<running, queue, wrun, cur, spc, si, cpc, creq, cout>>
  /\ poolFrame

\* request = self.request_queue.get(timeout=0.1)
worker_get(w) ==
  /\ wst[w] = "get" /\ queue # <<>>
  /\ cur' = [cur EXCEPT ![w] = Head(queue)]
  /\ queue' = Tail(queue)
  /\ wst' = [wst EXCEPT ![w] = "got"]
  /\ op' = [op EXCEPT ![w] = NoOp]
  /\ UNCHANGED <<running, wrun, spc, si, cpc, creq, cout>>
  /\ UNCHANGED <<storeVars, pc, todo, result, histVars, callVars, clusterVars>>

\* except queue.Empty: continue
worker_empty(w) ==
  /\ wst[w] = "get" /\ queue = <<>>
  /\ wst' = [wst EXCEPT ![w] = "loop"]
  /\ UNCHANGED <<running, queue, wrun, cur, spc, si, cpc, creq, cout>>
  /\ poolFrame

\* _process_request: SHUTDOWN
worker_shutdown(w) ==
  /\ wst[w] = "got" /\ cur[w].operation = "SHUTDOWN"
  /\ wrun' = [wrun EXCEPT ![w] = FALSE]
  /\ cur' = [cur EXCEPT ![w] = NoRequest]
  /\ wst' = [wst EXCEPT ![w] = "loop"]
  /\ UNCHANGED <<running, queue, spc, si, cpc, creq, cout>>
  /\ poolFrame

\* _process_request: request.result = self.store.get(...) / self.store.set(...)
worker_call(w) ==
  /\ wst[w] = "got" /\ op[w].kind = "NONE"
  /\ \/ cur[w].operation = "SET" /\ set_acquire(w, cur[w].key, cur[w].value)
     \/ cur[w].operation = "GET" /\ get_acquire(w, cur[w].key)
     \/ cur[w].operation = "DELETE" /\ delete_acquire(w, cur[w].key)
     \/ cur[w].operation = "CLEAR" /\ clear_acquire(w)

\* The store call of worker w left through an exception.
Raised(w) ==
  /\ cur[w].operation \in {"SET", "DELETE", "CLEAR"}
  /\ "raise" \in Range(eff[w])

\* The value _process_request stores in request.result.
request_result(w) ==
  IF Raised(w) THEN NULL
  ELSE IF cur[w].operation \in {"SET", "CLEAR"} THEN "True"
  ELSE IF cur[w].operation = "DELETE"
  THEN (IF result[w] THEN "True" ELSE "False")
  ELSE result[w]

\* A worker that does not record the exception.
request_error_none(w) == NULL

\* except Exception as e: request.error = str(e)
request_error(w) == IF Raised(w) THEN result[w] ELSE NULL

\* finally: request.event.set(); back in _run: task_done()
worker_done(w) ==
  /\ wst[w] = "got" /\ cur[w].operation \in {"SET", "GET", "DELETE", "CLEAR"}
  /\ pc[w] = "idle" /\ op[w].kind # "NONE"
  /\ creq' = IF creq[cur[w].by].id = cur[w].id
             THEN [creq EXCEPT ![cur[w].by].event = TRUE,
                               ![cur[w].by].result = request_result(w),
                               ![cur[w].by].error = request_error(w)]
             ELSE creq
  /\ cur' = [cur EXCEPT ![w] = NoRequest]
  /\ wst' = [wst EXCEPT ![w] = "loop"]
  /\ UNCHANGED <<running, queue, wrun, spc, si, cpc, cout>>
  /\ poolFrame

\* Router._submit_request: if not self._running: raise RuntimeError
submit_check(c, operation, k, v) ==
  /\ cpc[c] = "idle" /\ creq[c].id < MaxSubmits
  /\ creq' = [creq EXCEPT ![c] =
               WorkerRequest(operation, k, v, c, creq[c].id + 1)]
  /\ cpc' = [cpc EXCEPT ![c] = IF running THEN "put" ELSE "idle"]
  /\ cout' = [cout EXCEPT ![c] = IF running THEN NULL ELSE "NotRunning"]
  /\ UNCHANGED <<running, queue, wrun, wst, cur, spc, si>>
  /\ poolFrame

\* A put that does not look at the capacity of the queue.
submit_put_unbounded(c) ==
  /\ cpc[c] = "put"
  /\ queue' = Append(queue, creq[c])
  /\ cpc' = [cpc EXCEPT ![c] = "wait"]
  /\ UNCHANGED <<running, wrun, wst, cur, spc, si, creq, cout>>
  /\ poolFrame

\* self.request_queue.put(request, timeout=timeout or 5.0)
submit_put(c) ==
  /\ cpc[c] = "put" /\ Len(queue) < QueueSize
  /\ queue' = Append(queue, creq[c])
  /\ cpc' = [cpc EXCEPT ![c] = "wait"]
  /\ UNCHANGED <<running, wrun, wst, cur, spc, si, creq, cout>>
  /\ poolFrame

\* put raises queue.Full: the queue stayed full for the whole timeout
submit_full(c) ==
  /\ cpc[c] = "put" /\ Len(queue) >= QueueSize
  /\ cout' = [cout EXCEPT ![c] = "Full"]
  /\ cpc' = [cpc EXCEPT ![c] = "idle"]
  /\ UNCHANGED <<running, queue, wrun, wst, cur, spc, si, creq>>
  /\ poolFrame

\* request.event.wait(...) returned True: if request.error: raise
\* Exception(request.error); return request.result
submit_return(c) ==
  /\ cpc[c] = "wait" /\ creq[c].event
  /\ cout' = [cout EXCEPT ![c] = IF creq[c].error # NULL THEN "Exception"
                                 ELSE creq[c].result]
  /\ cpc' = [cpc EXCEPT ![c] = "idle"]
  /\ UNCHANGED <<running, queue, wrun, wst, cur, spc, si, creq>>
  /\ poolFrame

\* request.event.wait(...) returned False: raise TimeoutError. The request
\* stays where it is.
submit_timeout(c) ==
  /\ cpc[c] = "wait" /\ ~creq[c].event
  /\ cout' = [cout EXCEPT ![c] = "Timeout"]
  /\ cpc' = [cpc EXCEPT ![c] = "idle"]
  /\ UNCHANGED <<running, queue, wrun, wst, cur, spc, si, creq>>
  /\ poolFrame

\* Router.stop: self._running = False
stop_begin ==
  /\ spc = "idle" /\ running
  /\ running' = FALSE
  /\ spc' = "signal"
  /\ si' = 0
  /\ UNCHANGED <<queue, wrun, wst, cur, cpc, creq, cout>>
  /\ poolFrame

\* for _ in self.workers: self.request_queue.put(shutdown_request)
stop_signal ==
  /\ spc = "signal" /\ Len(queue) < QueueSize
  /\ queue' = Append(queue, WorkerRequest("SHUTDOWN", NoKey, NULL, NoThread, 0))
  /\ si' = IF si + 1 = NumWorkers THEN 0 ELSE si + 1
  /\ spc' = IF si + 1 = NumWorkers THEN "stop" ELSE "signal"
  /\ UNCHANGED <<running, wrun, wst, cur, cpc, creq, cout>>
  /\ poolFrame

\* Worker.stop: self.running = False
stop_worker ==
  /\ spc = "stop"
  /\ wrun' = [wrun EXCEPT ![WorkerList[si + 1]] = FALSE]
  /\ spc' = "join"
  /\ UNCHANGED <<running, queue, wst, cur, si, cpc, creq, cout>>
  /\ poolFrame

\* The worker thread is inside a Store call.
InStore(w) == wst[w] = "got" /\ cur[w].operation # "SHUTDOWN"

\* self.thread.join(timeout=5.0): the thread has ended, or it is inside a
\* Store call and the timeout ran out
stop_join ==
  /\ spc = "join"
  /\ wst[WorkerList[si + 1]] = "exited" \/ InStore(WorkerList[si + 1])
  /\ si' = IF si + 1 = NumWorkers THEN 0 ELSE si + 1
  /\ spc' = IF si + 1 = NumWorkers THEN "close" ELSE "stop"
  /\ UNCHANGED <<running, queue, wrun, wst, cur, cpc, creq, cout>>
  /\ poolFrame

\* self.store.close()
stop_close ==
  /\ spc = "close"
  /\ proc' = "closed"
  /\ walHandle' = FALSE
  /\ dbConn' = FALSE
  /\ spc' = "stopped"
  /\ UNCHANGED <<cfgWal, cfgDb, data, locks, globalLock, walFile, walEnabled,
                 db, threadVars, histVars, callVars, clusterVars>>
  /\ UNCHANGED <<running, queue, wrun, wst, cur, si, cpc, creq, cout>>

\* -------------------------------------------------------------- NodeServer
nodeFrame ==
  UNCHANGED <<storeVars, threadVars, histVars, callVars, poolVars, repairVars,
              gatewayVars, aeVars, calcVars>>

\* asyncio.create_task(self._replicate_set(...) / self._replicate_delete(...));
\* by is the number of the replication request being handled (0: a client's).
Task(n, operation, k, v, rid, by) ==
  [node |-> n, op |-> operation, key |-> k, value |-> v, rid |-> rid,
   by |-> by]

\* The request client.post(f"{peer_url}/set", ...) or
\* client.delete(f"{peer_url}/delete/{key}") of a replication task.
PeerRequest(t, p, seq) ==
  [op |-> t.op, from |-> t.node, to |-> p, key |-> t.key, value |-> t.value,
   is_replica |-> (t.op = "SET"), rid |-> t.rid, seq |-> seq]

StatusOf(ok) == IF ok THEN 200 ELSE 500

\* A SET handler that schedules replication whatever is_replica says.
set_key_forwarding(n, k, v, is_replica, rid, by, ok) ==
  /\ ndata' = IF ok THEN [ndata EXCEPT ![n] = Put(@, k, v)] ELSE ndata
  /\ tasks' = IF ok /\ peers[n] # {}
              THEN tasks \cup {Task(n, "SET", k, v, rid, by)}
              ELSE tasks

\* NodeServer.set_key: ok is whether self.router.set returned
set_key(n, k, v, is_replica, rid, by, ok) ==
  /\ ndata' = IF ok THEN [ndata EXCEPT ![n] = Put(@, k, v)] ELSE ndata
  /\ tasks' = IF ok /\ ~is_replica /\ peers[n] # {}
              THEN tasks \cup {Task(n, "SET", k, v, rid, by)}
              ELSE tasks

\* NodeServer.delete_key: ok is whether self.router.delete returned
delete_key(n, k, rid, by, ok) ==
  /\ ndata' = IF ok THEN [ndata EXCEPT ![n] = Remove(@, k)] ELSE ndata
  /\ tasks' = IF ok /\ peers[n] # {}
              THEN tasks \cup {Task(n, "DELETE", k, NULL, rid, by)}
              ELSE tasks

\* NodeServer.register_peer
register_peer(n, p) ==
  /\ nup[n] /\ p \notin peers[n]
  /\ peers' = [peers EXCEPT ![n] = @ \cup {p}]
  /\ UNCHANGED <<nup, ndata, tasks, msgs, replication_failures, nresp, nextId,
                 sent, failed>>
  /\ nodeFrame

\* A client (or the Gateway) posts /set to node n.
client_set(n, k, v, ok) ==
  /\ nup[n] /\ nextId <= MaxRequests
  /\ set_key(n, k, v, FALSE, nextId, 0, ok)
  /\ nresp' = [nresp EXCEPT ![nextId] =
                 [node |-> n, op |-> "SET", status |-> StatusOf(ok),
                  ok |-> ok]]
  /\ nextId' = nextId + 1
  /\ UNCHANGED <<nup, peers, msgs, replication_failures, sent, failed>>
  /\ nodeFrame

\* A client (or the Gateway) sends DELETE /delete/{key} to node n.
client_delete(n, k, ok) ==
  /\ nup[n] /\ nextId <= MaxRequests
  /\ delete_key(n, k, nextId, 0, ok)
  /\ nresp' = [nresp EXCEPT ![nextId] =
                 [node |-> n, op |-> "DELETE", status |-> StatusOf(ok),
                  ok |-> ok]]
  /\ nextId' = nextId + 1
  /\ UNCHANGED <<nup, peers, msgs, replication_failures, sent, failed>>
  /\ nodeFrame

\* Position of peer p in a set of peers.
Rank(p, ps) == Cardinality({q \in ps : q <= p})

\* NodeServer._replicate_set / _replicate_delete: one request to every peer
replicate_send(t) ==
  /\ t \in tasks /\ nup[t.node]
  /\ tasks' = tasks \ {t}
  /\ msgs' = msgs \cup {PeerRequest(t, p, sent[t.rid] + Rank(p, peers[t.node])) :
                         p \in peers[t.node]}
  /\ sent' = [sent EXCEPT ![t.rid] = @ + Cardinality(peers[t.node])]
  /\ UNCHANGED <<nup, ndata, peers, replication_failures, nresp, nextId,
                 failed>>
  /\ nodeFrame

\* A replication task runs while its client request has sent fewer than
\* MaxMessages replication requests.
replicate(t) ==
  /\ t \in tasks
  /\ sent[t.rid] + Cardinality(peers[t.node]) <= MaxMessages
  /\ replicate_send(t)

\* _replicate_to_peer / _delete_from_peer: what the sender does with the
\* answer. late: the answer did not arrive within timeout=2.0.
Counts(m, ok, late) ==
  IF m.op = "SET" THEN late \/ ~ok ELSE late

\* The peer handles a replication request and the sender gets the answer, or
\* gives up waiting for it.
peer_request(m, ok, late) ==
  /\ m \in msgs /\ nup[m.to] /\ nup[m.from]
  /\ \/ m.op = "SET" /\ set_key(m.to, m.key, m.value, m.is_replica, m.rid,
                                m.seq, ok)
     \/ m.op = "DELETE" /\ delete_key(m.to, m.key, m.rid, m.seq, ok)
  /\ msgs' = msgs \ {m}
  /\ replication_failures' =
       IF Counts(m, ok, late)
       THEN [replication_failures EXCEPT ![m.from] = @ + 1]
       ELSE replication_failures
  /\ failed' = IF late \/ ~ok THEN [failed EXCEPT ![m.from] = @ + 1]
               ELSE failed
  /\ UNCHANGED <<nup, peers, nresp, nextId, sent>>
  /\ nodeFrame

\* The request does not reach the peer: except Exception
peer_unreachable(m) ==
  /\ m \in msgs /\ nup[m.from]
  /\ msgs' = msgs \ {m}
  /\ replication_failures' = [replication_failures EXCEPT ![m.from] = @ + 1]
  /\ failed' = [failed EXCEPT ![m.from] = @ + 1]
  /\ UNCHANGED <<nup, ndata, peers, tasks, nresp, nextId, sent>>
  /\ nodeFrame

\* ------------------------------------------------------------- read repair
repairFrame ==
  UNCHANGED <<storeVars, threadVars, histVars, callVars, poolVars, gatewayVars,
              aeVars, calcVars>>

\* The task asyncio.create_task(self._read_repair(key, value)) of get_key
\* creates: rest holds the peers its loop has not visited yet, phase the
\* request it sends next.
Repair(id, n, k, v) ==
  [id |-> id, node |-> n, key |-> k, value |-> v, rest |-> sorted(peers[n]),
   phase |-> "get"]

\* NodeServer.get_key at node n: the read-repair tasks it creates
read_repair(n, k) ==
  LET value == Lookup(ndata[n], k)
  IN  IF value # NULL /\ peers[n] # {}
      THEN {Repair(nread + 1, n, k, value)}
      ELSE {}

\* A client sends GET /get/{key} to node n; ok is whether self.router.get
\* returned.
node_get(n, k, ok) ==
  LET created == IF ok THEN read_repair(n, k) ELSE {}
  IN  /\ nup[n]
      /\ nread + Cardinality(created) <= MaxReads
      /\ repairs' = repairs \cup created
      /\ nread' = nread + Cardinality(created)
      /\ nget' = [node |-> n, key |-> k,
                  value |-> IF ok THEN Lookup(ndata[n], k) ELSE NULL,
                  status |-> StatusOf(ok)]
      /\ UNCHANGED nodeVars
      /\ repairFrame

\* The for loop of _read_repair moves on to the next peer, or ends.
Advance(t) ==
  IF Len(t.rest) = 1 THEN {}
  ELSE {[t EXCEPT !.rest = Tail(@), !.phase = "get"]}

\* _read_repair: client.get(f"{peer_url}/get/{key}", timeout=1.0). answered
\* is whether the peer's get_key answered with status 200 in time; the
\* peer's handler creates a read-repair task of its own.
repair_get(t, answered) ==
  LET p == Head(t.rest)
      created == IF answered THEN read_repair(p, t.key) ELSE {}
      peer_value == Lookup(ndata[p], t.key)
  IN  /\ t \in repairs /\ t.phase = "get" /\ nup[t.node]
      /\ answered => nup[p]
      /\ nread + Cardinality(created) <= MaxReads
      /\ repairs' = ((repairs \ {t}) \cup created) \cup
                    (IF answered /\ peer_value # t.value
                     THEN {[t EXCEPT !.phase = "set"]}
                     ELSE Advance(t))
      /\ nread' = nread + Cardinality(created)
      /\ UNCHANGED <<nodeVars, nget>>
      /\ repairFrame

\* _read_repair: client.post(f"{peer_url}/set", json={..., "is_replica":
\* True}, timeout=1.0); the answer is not looked at.
repair_set(t, ok) ==
  LET p == Head(t.rest)
  IN  /\ t \in repairs /\ t.phase = "set" /\ nup[t.node]
      /\ IF nup[p] THEN set_key(p, t.key, t.value, TRUE, 0, 0, ok)
         ELSE UNCHANGED <<ndata, tasks>>
      /\ repairs' = (repairs \ {t}) \cup Advance(t)
      /\ UNCHANGED <<nup, peers, msgs, replication_failures, nresp, nextId,
                     sent, failed, nread, nget>>
      /\ repairFrame

\* ----------------------------------------------------------------- Gateway
gatewayFrame ==
  UNCHANGED <<storeVars, threadVars, histVars, callVars, poolVars, repairVars,
              aeVars, calcVars>>

\* bisect_right(self.sorted_keys, hash_value)
bisect_right(sk, h) == Cardinality({i \in 1..Len(sk) : sk[i] <= h})

\* ConsistentHashRing.get_node; NoNode stands for raise ValueError
get_node(r, k) ==
  IF DOMAIN r = {} THEN NoNode
  ELSE LET sk == sorted(DOMAIN r)
           idx == bisect_right(sk, hash_key(k))
       IN  r[sk[(IF idx = Len(sk) THEN 0 ELSE idx) + 1]]

\* The loop of get_nodes_for_replication from its i-th round on.
RECURSIVE walk(_, _, _, _, _, _)
walk(r, sk, idx, i, nodes, n) ==
  IF i = Len(sk) THEN nodes
  ELSE LET node_id == r[sk[((idx + i) % Len(sk)) + 1]]
           found == IF node_id \in Range(nodes) THEN nodes
                    ELSE Append(nodes, node_id)
       IN  IF Len(found) = n THEN found
           ELSE walk(r, sk, idx, i + 1, found, n)

\* ConsistentHashRing.get_nodes_for_replication
get_nodes_for_replication(r, k, n) ==
  IF DOMAIN r = {} THEN <<>>
  ELSE LET sk == sorted(DOMAIN r)
       IN  walk(r, sk, bisect_right(sk, hash_key(k)), 0, <<>>, n)

\* The result of a call made on the ring.
Looked(operation, k, n, node, nodes) ==
  [op |-> operation, key |-> k, n |-> n, node |-> node, nodes |-> nodes]

ringFrame ==
  UNCHANGED <<storeVars, threadVars, histVars, callVars, poolVars, nodeVars,
              repairVars, aeVars, merkle, hci, gresp, gwrote>>

\* A caller adds node n to the ring; healthy_nodes holds the ids added and
\* not removed since, as the Gateway keeps it.
ring_add_node(n) ==
  /\ ring' = add_node(ring, n)
  /\ healthy_nodes' = healthy_nodes \cup {n}
  /\ lookup' = Looked("add_node", NoKey, 0, n, <<>>)
  /\ ringFrame

\* A caller removes node n from the ring.
ring_remove_node(n) ==
  /\ ring' = remove_node(ring, n)
  /\ healthy_nodes' = healthy_nodes \ {n}
  /\ lookup' = Looked("remove_node", NoKey, 0, n, <<>>)
  /\ ringFrame

\* add_node and remove_node under the colliding _hash
tie_add_node(n) ==
  /\ ring' = add_points(ring, n, TiePoints(n))
  /\ healthy_nodes' = healthy_nodes \cup {n}
  /\ lookup' = Looked("add_node", NoKey, 0, n, <<>>)
  /\ ringFrame

tie_remove_node(n) ==
  /\ ring' = remove_points(ring, TiePoints(n))
  /\ healthy_nodes' = healthy_nodes \ {n}
  /\ lookup' = Looked("remove_node", NoKey, 0, n, <<>>)
  /\ ringFrame

\* A caller calls get_node(key).
ring_get_node(k) ==
  /\ lookup' = Looked("get_node", k, 0, get_node(ring, k), <<>>)
  /\ UNCHANGED <<ring, healthy_nodes>>
  /\ ringFrame

\* A caller calls get_nodes_for_replication(key, n).
ring_get_nodes(k, n) ==
  /\ lookup' = Looked("get_nodes_for_replication", k, n, NoNode,
                      get_nodes_for_replication(ring, k, n))
  /\ UNCHANGED <<ring, healthy_nodes>>
  /\ ringFrame

Reply(operation, k, status, n, v) ==
  [op |-> operation, key |-> k, status |-> status, node |-> n, value |-> v]

\* Gateway.set_key up to node_url = self.nodes[node_id]: the node chosen, or
\* the status of the HTTPException that leaves the handler. The 503 raised
\* inside try is caught by except Exception and becomes 500.
set_route(k) ==
  LET primary == get_node(ring, k)
      replica_nodes == get_nodes_for_replication(ring, k, 2)
  IN  IF primary = NoNode THEN [status |-> 500, node |-> NoNode]
      ELSE IF primary \in healthy_nodes
      THEN [status |-> 200, node |-> primary]
      ELSE IF Len(replica_nodes) > 1
      THEN [status |-> 200, node |-> replica_nodes[2]]
      ELSE [status |-> 500, node |-> NoNode]

\* Gateway.delete_key up to node_url = self.nodes[node_id]
delete_route(k) ==
  LET primary == get_node(ring, k)
  IN  IF primary = NoNode THEN [status |-> 500, node |-> NoNode]
      ELSE IF primary \in healthy_nodes
      THEN [status |-> 200, node |-> primary]
      ELSE [status |-> 500, node |-> NoNode]

\* Gateway.set_key / Gateway.delete_key: forward to the routed node and
\* return its answer; a request that cannot be sent ends in status 500.
gateway_forward(operation, k, v, rt) ==
  /\ IF rt.node # NoNode /\ nup[rt.node]
     THEN /\ \/ operation = "SET"
                /\ set_key(rt.node, k, v, FALSE, nextId, 0, TRUE)
             \/ operation = "DELETE"
                /\ delete_key(rt.node, k, nextId, 0, TRUE)
          /\ nresp' = [nresp EXCEPT ![nextId] =
                         [node |-> rt.node, op |-> operation,
                          status |-> 200, ok |-> TRUE]]
          /\ nextId' = nextId + 1
          /\ gresp' = Reply(operation, k, 200, rt.node, NULL)
          /\ gwrote' = v
     ELSE /\ gresp' = Reply(operation, k,
                           IF rt.node = NoNode THEN rt.status ELSE 500,
                           NoNode, NULL)
          /\ UNCHANGED <<ndata, tasks, nresp, nextId, gwrote>>
  /\ UNCHANGED <<nup, peers, msgs, replication_failures, sent, failed,
                 healthy_nodes, ring, hci>>
  /\ gatewayFrame

\* The Gateway handles a write while fewer than MaxRequests requests have
\* reached the nodes.
gateway_write(operation, k, v, rt) ==
  /\ nextId <= MaxRequests
  /\ gateway_forward(operation, k, v, rt)

gateway_set(k, v) == gateway_write("SET", k, v, set_route(k))

gateway_delete(k) == gateway_write("DELETE", k, NULL, delete_route(k))

\* The nodes Gateway.get_key sends a request to that answer it.
Answering(ns) == SelectSeq(ns, LAMBDA n : n \in healthy_nodes /\ nup[n])

\* A get_key that asks only the first node of the list.
gateway_get_primary_only(k) ==
  LET replica_nodes == get_nodes_for_replication(ring, k, 2)
      ns == Answering(SubSeq(replica_nodes, 1, 1))
  IN  /\ gresp' = IF ns # <<>>
                  THEN Reply("GET", k, 200, Head(ns),
                             Lookup(ndata[Head(ns)], k))
                  ELSE Reply("GET", k, 503, NoNode, NULL)
      /\ UNCHANGED <<nodeVars, healthy_nodes, ring, hci, gwrote>>
      /\ gatewayFrame

\* Gateway.get_key: the first node of the replication list that is healthy
\* and answers, else 503
gateway_get(k) ==
  LET replica_nodes == get_nodes_for_replication(ring, k, 2)
      ns == Answering(replica_nodes)
  IN  /\ gresp' = IF ns # <<>>
                  THEN Reply("GET", k, 200, Head(ns),
                             Lookup(ndata[Head(ns)], k))
                  ELSE Reply("GET", k, 503, NoNode, NULL)
      /\ UNCHANGED <<nodeVars, healthy_nodes, ring, hci, gwrote>>
      /\ gatewayFrame

\* A health check that updates healthy_nodes and leaves the ring alone.
health_check_view_only(answered) ==
  LET node_id == hci
      up == nup[node_id] /\ answered
  IN  /\ healthy_nodes' = IF up THEN healthy_nodes \cup {node_id}
                          ELSE healthy_nodes \ {node_id}
      /\ hci' = (hci % Cardinality(Nodes)) + 1
      /\ UNCHANGED <<nodeVars, ring, gresp, gwrote>>
      /\ gatewayFrame

\* A health check that removes a node that fails and never adds one back.
health_check_remove_only(answered) ==
  LET node_id == hci
      up == nup[node_id] /\ answered
  IN  /\ IF ~up /\ node_id \in healthy_nodes
         THEN /\ ring' = remove_node(ring, node_id)
              /\ healthy_nodes' = healthy_nodes \ {node_id}
         ELSE UNCHANGED <<ring, healthy_nodes>>
      /\ hci' = (hci % Cardinality(Nodes)) + 1
      /\ UNCHANGED <<nodeVars, gresp, gwrote>>
      /\ gatewayFrame

\* One round of the for loop of Gateway._health_check_loop; answered is
\* whether GET /health came back with status 200 within the timeout.
health_check(answered) ==
  LET node_id == hci
      up == nup[node_id] /\ answered
  IN  /\ IF up /\ node_id \notin healthy_nodes
         THEN /\ ring' = add_node(ring, node_id)
              /\ healthy_nodes' = healthy_nodes \cup {node_id}
         ELSE IF ~up /\ node_id \in healthy_nodes
         THEN /\ ring' = remove_node(ring, node_id)
              /\ healthy_nodes' = healthy_nodes \ {node_id}
         ELSE UNCHANGED <<ring, healthy_nodes>>
      /\ hci' = (hci % Cardinality(Nodes)) + 1
      /\ UNCHANGED <<nodeVars, gresp, gwrote>>
      /\ gatewayFrame

\* The process of node n ends; its tasks and open requests end with it.
node_stop(n) ==
  /\ nup[n]
  /\ nup' = [nup EXCEPT ![n] = FALSE]
  /\ tasks' = {t \in tasks : t.node # n}
  /\ msgs' = {m \in msgs : m.from # n}
  /\ repairs' = {t \in repairs : t.node # n}
  /\ UNCHANGED <<ndata, peers, replication_failures, nresp, nextId, sent,
                 failed, nread, nget>>
  /\ repairFrame

\* The process of node n is started again: NodeServer.__init__ builds a Router
\* over node_<id>.db and node_<id>.wal, whose log, never truncated since the
\* node first started on empty files, holds every mutation the node applied,
\* so the replay gives back the map it had; self.peers is empty and the
\* metrics start at zero.
node_start(n) ==
  /\ ~nup[n]
  /\ nup' = [nup EXCEPT ![n] = TRUE]
  /\ peers' = [peers EXCEPT ![n] = {}]
  /\ replication_failures' = [replication_failures EXCEPT ![n] = 0]
  /\ UNCHANGED <<ndata, tasks, msgs, nresp, nextId, sent, failed, repairs,
                 nread, nget>>
  /\ repairFrame

\* ------------------------------------------------------------ anti-entropy
\* A leaf digest computed from the value alone.
leaf_hash_of_value(k, v) == <<v>>

\* hashlib.sha256 of the text "<key>:<json value>": SHA-256 is taken to be
\* collision-free, so a digest is written as the text it was computed from.
leaf_hash(k, v) == <<ToString(k), ":", v>>

\* hashlib.sha256(combined.encode()) for combined = a + b
parent_hash(a, b) == <<"(">> \o a \o b \o <<")">>

\* One level of MerkleTree._build_tree: for i in range(0, len(hashes), 2)
parents(hashes) ==
  [i \in 1..((Len(hashes) + 1) \div 2) |->
     IF 2 * i <= Len(hashes)
     THEN parent_hash(hashes[2 * i - 1], hashes[2 * i])
     ELSE parent_hash(hashes[2 * i - 1], hashes[2 * i - 1])]

\* MerkleTree._build_tree
RECURSIVE build_tree(_)
build_tree(hashes) ==
  IF hashes = <<>> THEN <<>>
  ELSE IF Len(hashes) = 1 THEN hashes[1]
  ELSE build_tree(parents(hashes))

\* MerkleTree.__init__: self.leaves
leaves(d) == [k \in DOMAIN d |-> leaf_hash(k, d[k])]

\* MerkleTree.get_root_hash
get_root_hash(d) ==
  LET ks == sorted(DOMAIN d)
  IN  build_tree([i \in 1..Len(ks) |-> leaves(d)[ks[i]]])

\* MerkleTree.get_divergent_keys
get_divergent_keys(d1, d2) ==
  [only_in_self |-> (DOMAIN d1) \ (DOMAIN d2),
   only_in_other |-> (DOMAIN d2) \ (DOMAIN d1),
   different_values |-> {k \in (DOMAIN d1) \cap (DOMAIN d2) :
                           leaves(d1)[k] # leaves(d2)[k]}]

\* tree1 = MerkleTree(data1), tree2 = MerkleTree(data2), their roots and
\* tree1.get_divergent_keys(tree2), as sync_nodes computes them
merkle_compare ==
  /\ ~merkle.built
  /\ merkle' = [merkle EXCEPT
                  !.built = TRUE,
                  !.root1 = get_root_hash(merkle.data1),
                  !.root2 = get_root_hash(merkle.data2),
                  !.divergent = get_divergent_keys(merkle.data1,
                                                   merkle.data2)]
  /\ UNCHANGED <<storeVars, threadVars, histVars, callVars, poolVars, nodeVars,
                 repairVars, gatewayVars, aeVars, lookup>>

\* The data of a node after POST /set with is_replica True for the keys ks,
\* with the values of d.
SetAll(own, ks, d) ==
  [k \in (DOMAIN own) \cup ks |-> IF k \in ks THEN d[k] ELSE own[k]]

\* A sync_nodes that copies missing keys and skips the conflicts.
sync_nodes_missing_only(i, j) ==
  LET div == get_divergent_keys(ndata[i], ndata[j])
  IN  IF get_root_hash(ndata[i]) = get_root_hash(ndata[j]) THEN ndata
      ELSE [ndata EXCEPT
              ![j] = SetAll(@, div.only_in_self, ndata[i]),
              ![i] = SetAll(@, div.only_in_other, ndata[j])]

\* A sync_nodes that resolves a conflict with the second node's value.
sync_nodes_other_wins(i, j) ==
  LET div == get_divergent_keys(ndata[i], ndata[j])
  IN  IF get_root_hash(ndata[i]) = get_root_hash(ndata[j]) THEN ndata
      ELSE [ndata EXCEPT
              ![j] = SetAll(@, div.only_in_self, ndata[i]),
              ![i] = SetAll(SetAll(@, div.only_in_other, ndata[j]),
                            div.different_values, ndata[j])]

\* AntiEntropy.sync_nodes with every request answered: the nodes' data after
\* the call
sync_nodes(i, j) ==
  LET div == get_divergent_keys(ndata[i], ndata[j])
  IN  IF get_root_hash(ndata[i]) = get_root_hash(ndata[j]) THEN ndata
      ELSE [ndata EXCEPT
              ![j] = SetAll(SetAll(@, div.only_in_self, ndata[i]),
                            div.different_values, ndata[i]),
              ![i] = SetAll(@, div.only_in_other, ndata[j])]

\* AntiEntropy.sync_cluster: the pairs (node_ids[i], node_ids[j]), i < j, in
\* loop order, for node_ids in ascending order
RECURSIVE pairs(_)
pairs(ids) ==
  IF Len(ids) < 2 THEN <<>>
  ELSE [x \in 1..(Len(ids) - 1) |-> <<ids[1], ids[x + 1]>>] \o pairs(Tail(ids))

aeFrame ==
  UNCHANGED <<storeVars, threadVars, histVars, callVars, poolVars, gatewayVars,
              repairVars, calcVars, nup, peers, tasks, msgs,
              replication_failures, nresp, nextId, sent, failed, ndata0>>

\* Gateway._anti_entropy_loop: one iteration begins; with fewer than two
\* healthy nodes it is skipped
anti_entropy_begin ==
  /\ aei = 0 /\ cycles < MaxCycles
  /\ aesnap' = healthy_nodes
  /\ aei' = IF Cardinality(healthy_nodes) >= 2 THEN 1 ELSE 0
  /\ cycles' = IF Cardinality(healthy_nodes) >= 2 THEN cycles ELSE cycles + 1
  /\ UNCHANGED ndata
  /\ aeFrame

\* sync_cluster: stats = await self.sync_nodes(node1_url, node2_url)
anti_entropy_sync ==
  LET ps == pairs(sorted(aesnap))
  IN  /\ aei >= 1
      /\ ndata' = sync_nodes(ps[aei][1], ps[aei][2])
      /\ aei' = IF aei = Len(ps) THEN 0 ELSE aei + 1
      /\ cycles' = IF aei = Len(ps) THEN cycles + 1 ELSE cycles
      /\ UNCHANGED aesnap
      /\ aeFrame

\* One caller thread; the process may crash at any statement.
Next ==
  \/ Call(Main)
  \/ Step(Main)
  \/ crash
  \/ close
  \/ restart
  \/ reopen

Spec == Init /\ [][Next]_vars

\* Several threads call set, get, delete and exists on one Store that was
\* constructed with neither or with both of WAL and DurableMap.
InitConc == Init /\ (cfgWal <=> cfgDb)

NextConc ==
  \E t \in Threads :
    \/ \E k \in Keys, v \in Vals : set_acquire(t, k, v)
    \/ \E k \in Keys : get_acquire(t, k)
    \/ \E k \in Keys : exists_acquire(t, k)
    \/ \E k \in Keys : delete_acquire(t, k)
    \/ set_wal(t) \/ set_mem(t) \/ set_db(t) \/ set_ret(t)
    \/ get_ret(t) \/ exists_ret(t)
    \/ delete_chk(t) \/ delete_wal(t) \/ delete_mem(t) \/ delete_db(t)
    \/ delete_ret(t)

SpecConc == InitConc /\ [][NextConc]_vars

\* One thread calls update while another calls set and delete on the same
\* Store, which has a WAL and a DurableMap.
InitBulk == Init /\ cfgWal /\ cfgDb

Other == CHOOSE t \in Threads : t # Main

NextBulk ==
  \/ Bulk(Main)
  \/ set_wal(Main) \/ set_mem(Main) \/ set_db(Main) \/ set_ret(Main)
  \/ \E k \in Keys, v \in Vals : set_acquire(Other, k, v)
  \/ \E k \in Keys : delete_acquire(Other, k)
  \/ set_wal(Other) \/ set_mem(Other) \/ set_db(Other) \/ set_ret(Other)
  \/ delete_chk(Other) \/ delete_wal(Other) \/ delete_mem(Other)
  \/ delete_db(Other) \/ delete_ret(Other)

SpecBulk == InitBulk /\ [][NextBulk]_vars

\* One thread calls update() on a Store with WAL and DurableMap; the process
\* may crash at any statement and a new process then constructs a Store over
\* the same files.
NextBulkCrash ==
  \/ Bulk(Main)
  \/ set_wal(Main) \/ set_mem(Main) \/ set_db(Main) \/ set_ret(Main)
  \/ crash
  \/ restart

SpecBulkCrash == InitBulk /\ [][NextBulkCrash]_vars

\* Threads call lock_multiple on one LockManager; a thread that is inside a
\* call keeps running.
InitLocks == Init /\ ~cfgWal /\ ~cfgDb

NextLocks ==
  \E t \in Threads :
    \/ \E ks \in LockArgs : lock_multiple_begin(t, ks)
    \/ LockStep(t)

SpecLocks ==
  /\ InitLocks /\ [][NextLocks]_vars
  /\ \A t \in Threads : WF_vars(LockStep(t))

\* Threads use lock_multiple() and lock() while any thread may call
\* cleanup_unused_locks() between two of its own statements.
NextReap ==
  \E t \in Threads :
    \/ \E ks \in LockArgs : lock_multiple_begin(t, ks)
    \/ LockStep(t)
    \/ cleanup_unused_locks(t)

SpecReap == InitLocks /\ [][NextReap]_vars

\* Clients submit SET and GET requests on one key to a Router over a Store
\* without WAL and DurableMap; the Router is started once and stopped once.
PoolKey == CHOOSE k \in Keys : TRUE

InitPool == Init /\ ~cfgWal /\ ~cfgDb

NextPool ==
  \/ router_start
  \/ \E w \in Workers :
       \/ worker_loop(w) \/ worker_get(w) \/ worker_empty(w)
       \/ worker_shutdown(w) \/ worker_call(w) \/ worker_done(w)
       \/ set_wal(w) \/ set_mem(w) \/ set_db(w) \/ set_ret(w) \/ get_ret(w)
  \/ \E c \in Clients :
       \/ \E v \in Vals : submit_check(c, "SET", PoolKey, v)
       \/ submit_check(c, "GET", PoolKey, NULL)
       \/ submit_put(c) \/ submit_full(c) \/ submit_return(c)
       \/ submit_timeout(c)
  \/ stop_begin \/ stop_signal \/ stop_worker \/ stop_join \/ stop_close

SpecPool == InitPool /\ [][NextPool]_vars

\* The statements of worker thread w: Worker._run, _process_request and
\* the Store call it makes.
WorkerStep(w) ==
  \/ worker_loop(w) \/ worker_get(w) \/ worker_empty(w)
  \/ worker_shutdown(w) \/ worker_call(w) \/ worker_done(w)
  \/ set_wal(w) \/ set_mem(w) \/ set_db(w) \/ set_ret(w) \/ get_ret(w)

\* The pool with worker threads that keep running: a worker thread that can
\* take a step eventually takes one.
SpecPoolLive == SpecPool /\ \A w \in Workers : WF_vars(WorkerStep(w))

\* A client submits SET, DELETE and CLEAR requests to a started Router over
\* a Store with WAL and DurableMap; any log write may fail with OSError.
NextPoolWal ==
  \/ router_start
  \/ \E w \in Workers :
       \/ worker_loop(w) \/ worker_get(w) \/ worker_empty(w)
       \/ worker_call(w) \/ worker_done(w)
       \/ set_wal(w) \/ set_mem(w) \/ set_db(w) \/ set_ret(w)
       \/ delete_chk(w) \/ delete_wal(w) \/ delete_mem(w) \/ delete_db(w)
       \/ delete_ret(w)
       \/ clear_wal(w) \/ clear_mem(w) \/ clear_db(w) \/ clear_ret(w)
       \/ \E file \in FailedWrites(w) : wal_write_fails(w, file)
  \/ \E c \in Clients :
       \/ \E v \in Vals : submit_check(c, "SET", PoolKey, v)
       \/ submit_check(c, "DELETE", PoolKey, NULL)
       \/ submit_check(c, "CLEAR", NoKey, NULL)
       \/ submit_put(c) \/ submit_return(c)

SpecPoolWal == InitBulk /\ [][NextPoolWal]_vars

\* No replication is under way.
Quiet == tasks = {} /\ msgs = {}

\* Peers are registered while the cluster is initialised; then clients send
\* SET and DELETE to the nodes, one request after the replication of the
\* previous one has ended. Replication requests may fail.
InitRepl == Init /\ ~cfgWal /\ ~cfgDb

NextRepl ==
  \/ /\ nextId = 1
     /\ \E n \in Nodes : \E p \in Nodes \ {n} : register_peer(n, p)
  \/ /\ Quiet
     /\ \E n \in Nodes, ok \in BOOLEAN :
          \/ \E v \in Vals : client_set(n, PoolKey, v, ok)
          \/ client_delete(n, PoolKey, ok)
  \/ \E t \in tasks : replicate(t)
  \/ \E m \in msgs :
       \/ \E ok \in BOOLEAN, late \in BOOLEAN : peer_request(m, ok, late)
       \/ peer_unreachable(m)

SpecRepl == InitRepl /\ [][NextRepl]_vars

\* Clients send SET, GET and DELETE for one key to the Gateway of an
\* initialised three-node cluster while the health monitor runs and nodes
\* stop; a health check of a running node may time out. A write is sent, and
\* a node stops, when the replication of the previous write has ended.
InitCluster ==
  /\ InitStore /\ ~cfgWal /\ ~cfgDb
  /\ InitNodes
  /\ InitGateway
  /\ peers = AllPeers
  /\ ndata = [n \in Nodes |-> EmptyMap]
  /\ InitAntiEntropy

NextCluster ==
  \/ Quiet /\ \E v \in Vals : gateway_set(PoolKey, v)
  \/ Quiet /\ gateway_delete(PoolKey)
  \/ gateway_get(PoolKey)
  \/ \E answered \in BOOLEAN : health_check(answered)
  \/ Quiet /\ \E n \in Nodes : node_stop(n)
  \/ \E t \in tasks : replicate(t)
  \/ \E m \in msgs :
       \/ peer_request(m, TRUE, FALSE)
       \/ ~nup[m.to] /\ peer_unreachable(m)

SpecCluster == InitCluster /\ [][NextCluster]_vars

\* The cluster with nodes that stop and one node that is started again (once,
\* so that its log has never been truncated): GET /health of a node that
\* runs is answered with 200, of a stopped node it fails.
NextMembership ==
  \/ Quiet /\ \E v \in Vals : gateway_set(PoolKey, v)
  \/ Quiet /\ gateway_delete(PoolKey)
  \/ gateway_get(PoolKey)
  \/ health_check(TRUE)
  \/ Quiet /\ \E n \in Nodes : node_stop(n)
  \/ Quiet /\ peers = AllPeers /\ \E n \in Nodes : node_start(n)
  \/ \E t \in tasks : replicate(t)
  \/ \E m \in msgs :
       \/ peer_request(m, TRUE, FALSE)
       \/ ~nup[m.to] /\ peer_unreachable(m)

SpecMembership == InitCluster /\ [][NextMembership]_vars

\* _health_check_loop is a task of the event loop that runs for as long as
\* the Gateway does: while True: await asyncio.sleep(...), then one request
\* per node.
SpecMembershipLive == SpecMembership /\ WF_vars(health_check(TRUE))

\* A replication task of SpecQuorum may send its requests.
MayReplicate(t) == sent[t.rid] + Cardinality(peers[t.node]) <= MaxStorm

\* No replication request is in flight and no task may send one.
Settled == msgs = {} /\ \A t \in tasks : ~MayReplicate(t)

\* Clients send DELETE and SET for one key to the Gateway of a three-node
\* cluster whose nodes run, are registered with each other and hold the same
\* data. Every request is answered. When the clients have stopped and
\* replication has ended, the anti-entropy loop runs.
InitQuorum ==
  /\ InitStore /\ ~cfgWal /\ ~cfgDb
  /\ InitNodes
  /\ InitGateway
  /\ peers = AllPeers
  /\ \E d \in {EmptyMap} \cup {Put(EmptyMap, PoolKey, v) : v \in Vals} :
       ndata = [n \in Nodes |-> d]
  /\ InitAntiEntropy

NextQuorum ==
  \/ /\ nextId <= MaxWrites /\ aei = 0 /\ cycles = 0
     /\ \E v \in Vals :
          gateway_forward("SET", PoolKey, v, set_route(PoolKey))
  \/ /\ nextId <= MaxWrites /\ aei = 0 /\ cycles = 0
     /\ gateway_forward("DELETE", PoolKey, NULL, delete_route(PoolKey))
  \/ \E t \in tasks : MayReplicate(t) /\ replicate_send(t)
  \/ \E m \in msgs : peer_request(m, TRUE, FALSE)
  \/ nextId > 1 /\ Settled /\ anti_entropy_begin
  \/ anti_entropy_sync

SpecQuorum == InitQuorum /\ [][NextQuorum]_vars

\* Reads at the nodes of a full mesh whose copies of PoolKey may differ: a
\* request to a node that runs is answered (the peer's store does not fail
\* and no timeout expires), a request to a stopped node fails.
InitRepair ==
  /\ InitStore /\ ~cfgWal /\ ~cfgDb
  /\ InitNodes
  /\ InitGateway
  /\ peers = AllPeers
  /\ ndata \in [Nodes -> {EmptyMap} \cup {Put(EmptyMap, PoolKey, v) : v \in Vals}]
  /\ InitAntiEntropy

NextRepair ==
  \/ \E n \in Nodes, ok \in BOOLEAN : node_get(n, PoolKey, ok)
  \/ \E t \in repairs : repair_get(t, nup[Head(t.rest)])
  \/ \E t \in repairs : repair_set(t, TRUE)
  \/ \E n \in Nodes : node_stop(n)

SpecRepair == InitRepair /\ [][NextRepair]_vars

\* Snapshots of up to MaxLeaves keys.
TreeKeys == 1..MaxLeaves
TreeMaps == UNION {[D -> Vals] : D \in SUBSET TreeKeys}

\* Merkle trees are built from any two snapshots and compared.
InitMerkle ==
  /\ InitStore /\ ~cfgWal /\ ~cfgDb
  /\ InitNodes
  /\ InitGateway
  /\ peers = AllPeers
  /\ ndata = [n \in Nodes |-> EmptyMap]
  /\ aesnap = {} /\ aei = 0 /\ cycles = 0 /\ ndata0 = ndata
  /\ \E d1 \in TreeMaps, d2 \in TreeMaps :
       merkle = [NoTrees EXCEPT !.data1 = d1, !.data2 = d2]

NextMerkle == merkle_compare

SpecMerkle == InitMerkle /\ [][NextMerkle]_vars

\* Keys given to the ring: one for every value of _hash.
RingKeys == 0..(RingSize - 1)

\* Callers add absent nodes to and remove present nodes from a ring that
\* starts empty, as the Gateway's monitor does, and look keys up in it.
InitRing ==
  /\ InitStore /\ ~cfgWal /\ ~cfgDb
  /\ InitNodes
  /\ healthy_nodes = {}
  /\ ring = EmptyMap
  /\ hci = 1
  /\ gresp = NoReply
  /\ gwrote = NULL
  /\ lookup = NoLookup
  /\ peers = AllPeers
  /\ ndata = [n \in Nodes |-> EmptyMap]
  /\ InitAntiEntropy

NextRing ==
  \/ \E n \in Nodes \ healthy_nodes : ring_add_node(n)
  \/ \E n \in healthy_nodes : ring_remove_node(n)
  \/ \E k \in RingKeys : ring_get_node(k)
  \/ \E k \in RingKeys, n \in 0..MaxCopies : ring_get_nodes(k, n)

SpecRing == InitRing /\ [][NextRing]_vars

\* Callers add and remove any nodes, present or not, on a ring whose _hash
\* collides for virtual node keys of different nodes, and look keys up.
NextRingTies ==
  \/ \E n \in Nodes : tie_add_node(n)
  \/ \E n \in Nodes : tie_remove_node(n)
  \/ \E k \in RingKeys : ring_get_node(k)
  \/ \E k \in RingKeys, n \in 0..MaxCopies : ring_get_nodes(k, n)

SpecRingTies == InitRing /\ [][NextRingTies]_vars

\* dictionaries over Keys
AllMaps == UNION {[D -> Vals] : D \in SUBSET Keys}

\* The ring of a Gateway whose monitor has left the nodes hs in it.
RingOf(hs) ==
  [h \in UNION {Points(n) : n \in hs} |-> CHOOSE n \in hs : h \in Points(n)]

\* The anti-entropy loop runs on a cluster whose nodes hold any data; no
\* client writes, membership does not change, every request is answered.
InitSync ==
  /\ InitStore /\ ~cfgWal /\ ~cfgDb
  /\ InitNodes
  /\ peers = AllPeers
  /\ ndata \in [Nodes -> AllMaps]
  /\ healthy_nodes \in SUBSET Nodes
  /\ ring = RingOf(healthy_nodes)
  /\ hci = 1
  /\ gresp = NoReply
  /\ gwrote = NULL
  /\ lookup = NoLookup
  /\ InitAntiEntropy

NextSync == anti_entropy_begin \/ anti_entropy_sync

SpecSync == InitSync /\ [][NextSync]_vars

\* ================================================================ claims
Both == cfgWal /\ cfgDb
Ready == proc = "up" /\ pc[Main] = "idle"
AckedSet(k) == last[k].kind = "SET" /\ last[k].ack
AckedDelete(k) == last[k].kind = "DELETE" /\ last[k].ack
AckedClear(k) == last[k].kind = "CLEAR" /\ last[k].ack

\* C1: with WAL and DurableMap attached, a key whose last issued call is an
\* acknowledged SET(k,v) reads v in every Store constructed afterwards,
\* whatever number of crashes and restarts lie in between.
C1_AckedSetSurvivesRestarts ==
  (Both /\ Ready) =>
    \A k \in Keys : (AckedSet(k) /\ last[k].old) => Lookup(data, k) = last[k].val

\* C2: with WAL and DurableMap attached, after an acknowledged DELETE(k) every
\* Store constructed afterwards has k absent, and every other key whose last
\* call is an acknowledged SET still has that value.
C2_AckedDeleteSurvivesRestarts ==
  (Both /\ Ready) =>
    \A k \in Keys :
      (AckedDelete(k) /\ last[k].old) =>
        /\ k \notin DOMAIN data
        /\ \A j \in Keys \ {k} : AckedSet(j) => Lookup(data, j) = last[j].val

\* C3: after a CLEAR was acknowledged, a Store constructed after a crash
\* holds exactly the keys written since that CLEAR, with their values.
C3_KeysSinceClearAfterRestart ==
  (Both /\ Ready /\ (\E k \in Keys : AckedClear(k))
        /\ (\A k \in Keys : last[k].ack /\ last[k].old)) =>
    data = [k \in {j \in Keys : last[j].kind = "SET"} |-> last[k].val]

\* C4: close() followed by the construction of a new Store over the same
\* files yields the contents the closed Store had, in every close/reopen
\* cycle, with a DurableMap alone and with WAL and DurableMap.
C4_CloseReopenRoundTrip ==
  [][(cfgDb /\ proc = "closed" /\ proc' = "up") => data' = data]_vars

\* C5: after close() the DurableMap holds exactly the pairs of the in-memory
\* map and the WAL file is empty.
C5_CleanShutdownState ==
  (proc = "closed") =>
    /\ cfgDb => load_all(db) = data
    /\ cfgWal => walFile = <<>>

\* C7: on one Store driven by one thread, get returns the value of the last
\* SET on the key unless a DELETE of it or a CLEAR came later (then None,
\* never an error), exists is true exactly for the keys get finds, delete
\* returns True iff the key was bound, size is the number of bound keys, and
\* between calls the in-memory map binds exactly those keys.
C7_SequentialMapSemantics ==
  Ready =>
    /\ \A k \in Keys : Lookup(data, k) = Expect(k)
    /\ op[Main].kind = "GET" => result[Main] = Expect(op[Main].key)
    /\ op[Main].kind = "EXISTS" =>
         result[Main] = (Expect(op[Main].key) # NULL)
    /\ op[Main].kind = "DELETE" =>
         result[Main] = (op[Main].pre # NULL)
    /\ op[Main].kind = "SIZE" =>
         result[Main] = Cardinality({k \in Keys : Expect(k) # NULL})

\* C7 witness: SET(k,v); DELETE(k) returned True; GET(k) returned None.
C7_Witness ==
  /\ Ready /\ op[Main].kind = "GET"
  /\ last[op[Main].key].kind = "DELETE" /\ ~last[op[Main].key].old
  /\ op[Main].key \in DOMAIN base
  /\ result[Main] = NULL

Has(s, e) == \E i \in 1..Len(s) : s[i] = e
Pos(s, e) == CHOOSE i \in 1..Len(s) : s[i] = e
Mutation(t) == op[t].kind \in {"SET", "DELETE", "CLEAR"}

\* The log line of the call thread t is in.
Matching(t) == to_json(WALEntry(op[t].kind, op[t].key, op[t].val))

\* C6: a set, a delete of an existing key and a clear that is not one of
\* the set calls update() makes writes its log line first, then changes the
\* in-memory map, then writes the DurableMap, and returns last; the map
\* never shows such a change before its log line is in the file.
C6_WalFirstOrdering ==
  \A t \in Threads :
    (Mutation(t) /\ ~op[t].bulk) =>
      /\ (Has(eff[t], "mem") /\ cfgWal) =>
           /\ Has(eff[t], "wal")
           /\ Pos(eff[t], "wal") < Pos(eff[t], "mem")
      /\ (Has(eff[t], "wal") /\ ~Has(eff[t], "mem")) =>
           walFile # <<>> /\ walFile[Len(walFile)] = Matching(t)
      /\ Has(eff[t], "db") =>
           Has(eff[t], "mem") /\ Pos(eff[t], "mem") < Pos(eff[t], "db")
      /\ Has(eff[t], "ack") =>
           /\ Pos(eff[t], "ack") = Len(eff[t])
           /\ \/ op[t].kind = "DELETE" /\ eff[t] = <<"ack">>
              \/ /\ Has(eff[t], "mem")
                 /\ cfgDb => Has(eff[t], "db")

InCS(t, k) ==
  /\ pc[t] # "idle"
  /\ op[t].kind \in {"SET", "GET", "DELETE", "EXISTS"}
  /\ op[t].key = k

Returned(t, kind) == pc[t] = "idle" /\ op[t].kind = kind

\* C8: with several threads calling set, get, delete and exists, at most one
\* thread at a time is inside the locked section of a key; a get returns the
\* value of the latest set on its key in the order in which the key's lock
\* was acquired (an exists and a delete report that binding); and when no
\* call is in progress the map binds every key to the value of its latest
\* set, so that calls on other keys changed nothing: size() is the number
\* of keys whose latest call is a set.
C8_PerKeyLinearizable ==
  /\ \A k \in Keys : Cardinality({t \in Threads : InCS(t, k)}) <= 1
  /\ \A t \in Threads :
       /\ Returned(t, "GET") => result[t] = op[t].pre
       /\ Returned(t, "EXISTS") => result[t] = (op[t].pre # NULL)
       /\ Returned(t, "DELETE") => result[t] = (op[t].pre # NULL)
  /\ AllIdle =>
       /\ \A k \in Keys : Lookup(data, k) = Expect(k)
       /\ Cardinality(DOMAIN data) = Cardinality({k \in Keys : AckedSet(k)})

\* C8 witness: a get on one thread has returned the value another thread
\* set, while that thread is inside a call on another key.
C8_Witness ==
  \E t \in Threads : \E u \in Threads \ {t} :
    /\ Returned(t, "GET") /\ result[t] # NULL
    /\ last[op[t].key].th = u
    /\ pc[u] = "set_mem" /\ op[u].key # op[t].key

Blocked(t) ==
  /\ pc[t] = "lm_acquire" /\ op[t].held < Len(op[t].keys)
  /\ ~KeyLockFree(op[t].keys[op[t].held + 1], t)

\* C9: every lock_multiple call, whatever keys the concurrent callers pass
\* (overlapping, in any order, with duplicates), acquires all its locks and
\* returns; and a thread inside the block can always acquire the lock of a
\* key it holds again.
C9_LockMultipleTerminates ==
  /\ \A t \in Threads : (pc[t] = "lm_acquire") ~> (pc[t] = "lm_body")
  /\ \A t \in Threads : (pc[t] = "lm_body") ~> (pc[t] = "idle")
  /\ [](\A t \in Threads :
          pc[t] = "lm_body" => \A k \in Held(t) : KeyLockFree(k, t))

\* C9 witness: a caller that passed its keys out of order or twice holds two
\* locks, one of them twice, while another caller waits for one of them.
C9_Witness ==
  \E t \in Threads : \E u \in Threads \ {t} :
    /\ pc[t] = "lm_nested" /\ op[t].mixed /\ op[t].held >= 2
    /\ Blocked(u) /\ op[u].held >= 1
    /\ op[u].keys[op[u].held + 1] \in Held(t)

\* The pool has not been started, or stop() has returned.
Stopped == ~running /\ spc \in {"idle", "stopped"}

ClientRequests(q) ==
  Cardinality({i \in 1..Len(q) : q[i].operation # "SHUTDOWN"})

\* C10: while the pool is not started or is stopped, no request of a client
\* enters the queue and the Store does not change - also for a submit that
\* began before stop().
C10_StoppedPoolRejects ==
  [][Stopped =>
       /\ ClientRequests(queue') <= ClientRequests(queue)
       /\ data' = data]_vars

\* The request of client c's current submit call is in the queue or in the
\* hands of a worker.
Pending(c) ==
  \/ \E i \in 1..Len(queue) : queue[i].by = c /\ queue[i].id = creq[c].id
  \/ \E w \in Workers : cur[w].by = c /\ cur[w].id = creq[c].id

\* C11: the queue never holds more than QueueSize requests, and the request
\* of a submit that ended with queue.Full (Backpressure) is neither in the
\* queue nor taken by a worker; the step that raises leaves the Store alone.
C11_BoundedQueueBackpressure ==
  /\ Len(queue) <= QueueSize
  /\ \A c \in Clients : cout[c] = "Full" => ~Pending(c)

\* C11 witness: the queue is full of requests whose callers timed out, and a
\* further submit has failed with queue.Full.
C11_Witness ==
  /\ Len(queue) = QueueSize
  /\ \A i \in 1..Len(queue) : queue[i].operation # "SHUTDOWN"
  /\ \E c \in Clients : cout[c] = "Full" /\ cpc[c] = "idle"

\* The SHUTDOWN requests in the queue.
Sentinels == {i \in 1..Len(queue) : queue[i].operation = "SHUTDOWN"}

\* C12: stop() enqueues no more than one SHUTDOWN per worker, and once it has
\* closed the Store every worker has left its loop and no worker is inside a
\* Store call.
C12_CloseAfterWorkersExit ==
  /\ Cardinality(Sentinels) <= NumWorkers
  /\ spc = "stopped" =>
       \A w \in Workers : wst[w] = "exited" /\ pc[w] = "idle"

\* Worker w has applied the request it holds to the Store.
Applied(w) ==
  /\ wst[w] = "got" /\ op[w].kind \in {"SET", "GET"}
  /\ op[w].kind = "SET" => Has(eff[w], "mem")
  /\ op[w].kind = "GET" => pc[w] = "idle"

\* C13: when two workers hold requests of one submitter, the request that
\* was submitted later is not applied to the Store before the earlier one.
C13_PerSubmitterFifo ==
  \A w1 \in Workers : \A w2 \in Workers \ {w1} :
    (/\ cur[w1].by \in Clients /\ cur[w1].by = cur[w2].by
     /\ cur[w1].id < cur[w2].id
     /\ Applied(w2))
    => Applied(w1)

\* The replication tasks a step creates and runs, and the requests it sends.
NewTasks == tasks' \ tasks
RunTasks == tasks \ tasks'
NewRequests == msgs' \ msgs

C15_DeleteFanOut ==
  [][/\ \A t \in NewTasks : t.op = "DELETE" => t.by = 0 /\ msgs' = msgs
     /\ \A r \in 1..MaxRequests :
          nresp'[r].op = "DELETE" =>
            sent'[r] <= Cardinality(peers'[nresp'[r].node])]_vars

\* C16: the status of the response to a client SET or DELETE is 200 exactly
\* when the local Store call returned, whatever became of the replication,
\* and every node's replication_failures counter equals the number of its
\* replication requests that failed (unreachable, timed out or answered with
\* a status other than 200).
C16_FailuresAbsorbedAndCounted ==
  /\ \A r \in 1..MaxRequests :
       nresp[r].op # "NONE" => (nresp[r].status = 200 <=> nresp[r].ok)
  /\ \A n \in Nodes : replication_failures[n] = failed[n]

\* The first node of the replication list of key k that is healthy.
RECURSIVE FirstHealthy(_)
FirstHealthy(ns) ==
  IF ns = <<>> THEN NoNode
  ELSE IF Head(ns) \in healthy_nodes THEN Head(ns)
  ELSE FirstHealthy(Tail(ns))

Target(k) == FirstHealthy(get_nodes_for_replication(ring, k, 2))

\* The step is the Gateway's handling of a SET or DELETE.
GatewayWrote == gresp' # gresp /\ gresp'.op \in {"SET", "DELETE"}

\* C17: the Gateway forwards a SET or DELETE to the first healthy node of the
\* key's replication list (the primary when it is healthy); when there is no
\* such node, also when the ring is empty, it answers 503 and forwards the
\* request to no node.
C17_WriteRouting ==
  [][GatewayWrote =>
       IF Target(gresp'.key) = NoNode
       THEN gresp'.status = 503 /\ nextId' = nextId /\ ndata' = ndata
       ELSE nup[Target(gresp'.key)] =>
              gresp'.status = 200 /\ gresp'.node = Target(gresp'.key)]_vars

\* The step is the Gateway's handling of a GET.
GatewayRead == gresp' # gresp /\ gresp'.op = "GET"

Up == {n \in Nodes : nup[n]}

\* Every running node holds value v for key k.
AllHold(k, v) == \A n \in Up : Lookup(ndata[n], k) = v

RingNodes == {ring[h] : h \in DOMAIN ring}

\* C19: in every state the nodes that own points on the ring are exactly
\* healthy_nodes, a subset of the configured nodes; a step changes the ring
\* or healthy_nodes only if it is a health check, which adds the checked node
\* when it answered and was absent or removes it when it failed and was
\* present.
C19_MembershipInvariant ==
  /\ [](RingNodes = healthy_nodes /\ healthy_nodes \subseteq Nodes)
  /\ [][(ring' # ring \/ healthy_nodes' # healthy_nodes) =>
          /\ hci' # hci
          /\ \/ /\ hci \notin healthy_nodes /\ nup[hci]
                /\ healthy_nodes' = healthy_nodes \cup {hci}
             \/ /\ hci \in healthy_nodes
                /\ healthy_nodes' = healthy_nodes \ {hci}]_vars

\* C19 witness: the monitor has removed a node and not the others, and a
\* request handler has since routed a request over the smaller ring.
C19_Witness ==
  /\ healthy_nodes # Nodes /\ healthy_nodes # {}
  /\ gresp.op # "NONE" /\ gresp.node \in healthy_nodes
  /\ gresp.node = get_node(ring, gresp.key)
  /\ \E n \in Nodes \ healthy_nodes : get_node(add_node(ring, n), gresp.key) = n

\* The nodes of the last anti-entropy iteration.
Synced == IF Cardinality(aesnap) >= 2 THEN aesnap ELSE {}

\* Key k was on node i and on no other node when the Gateway started.
OnlyOn(k, i) ==
  /\ k \in DOMAIN ndata0[i]
  /\ \A j \in Nodes \ {i} : k \notin DOMAIN ndata0[j]

\* C20: when two anti-entropy iterations have been completed, all healthy
\* nodes hold the same data and have equal Merkle roots; and when one has
\* been completed, a key that was on one healthy node only is on every
\* healthy node with the same value.
C20_AntiEntropyConvergence ==
  /\ (cycles >= 2 /\ aei = 0) =>
       \A i \in Synced : \A j \in Synced :
         /\ ndata[i] = ndata[j]
         /\ get_root_hash(ndata[i]) = get_root_hash(ndata[j])
  /\ (cycles >= 1 /\ aei = 0) =>
       \A i \in Synced : \A k \in Keys :
         OnlyOn(k, i) =>
           \A j \in Synced : Lookup(ndata[j], k) = ndata0[i][k]

\* C20 witness: three healthy nodes that started with a conflicting key and
\* with a key held by one node only have been through two iterations.
C20_Witness ==
  /\ cycles = 2 /\ aei = 0 /\ aesnap = Nodes
  /\ \E k \in Keys : \E i \in Nodes : OnlyOn(k, i)
  /\ \E k \in Keys : \E i \in Nodes : \E j \in Nodes :
       /\ k \in DOMAIN ndata0[i] /\ k \in DOMAIN ndata0[j]
       /\ ndata0[i][k] # ndata0[j][k]

\* The primary of key k and its first distinct clockwise successor.
Replicas(k) == Range(get_nodes_for_replication(ring, k, 2))

\* C21: once the Gateway has accepted SET(k, v) as the last write of the key,
\* replication has ended and an anti-entropy iteration has run after it, the
\* key's primary and its first distinct clockwise successor both hold v.
C21_ReplicationQuorum ==
  (/\ gresp.op = "SET" /\ gresp.status = 200
   /\ Settled /\ aei = 0 /\ cycles >= 1)
    => \A n \in Replicas(gresp.key) : Lookup(ndata[n], gresp.key) = gwrote

\* C22: the roots of the Merkle trees of two snapshots are equal exactly when
\* the snapshots hold the same keys with the same values, which is exactly
\* when the three divergence sets are empty (SHA-256 taken as
\* collision-free).
C22_MerkleSoundness ==
  merkle.built =>
    /\ (merkle.root1 = merkle.root2) <=> (merkle.data1 = merkle.data2)
    /\ (merkle.data1 = merkle.data2) <=>
         /\ merkle.divergent.only_in_self = {}
         /\ merkle.divergent.only_in_other = {}
         /\ merkle.divergent.different_values = {}

\* C22 witness: trees were built from a snapshot of three keys, whose last
\* leaf digest is duplicated, and a snapshot of one key with the same value,
\* whose leaf digest is the root; the roots differ.
C22_Witness ==
  /\ merkle.built
  /\ Cardinality(DOMAIN merkle.data1) = 3
  /\ Cardinality(DOMAIN merkle.data2) = 1
  /\ \A k \in DOMAIN merkle.data2 :
       k \in DOMAIN merkle.data1 /\ merkle.data1[k] = merkle.data2[k]
  /\ merkle.root1 # merkle.root2

\* The owner of the first ring entry at or after hash value h, clockwise.
FirstAtOrAfter(r, h) ==
  LET ge == {x \in DOMAIN r : x >= h}
  IN  IF ge # {} THEN r[Min(ge)] ELSE r[Min(DOMAIN r)]

\* C23: get_node(key) returns the owner of the first ring entry whose hash is
\* greater than or equal to hash(key), also when hash(key) equals the hash of
\* a ring point, wrapping to the first entry past the last point, and fails
\* (NoNode) when the ring has no nodes.
C23_GetNodeAtOrAfter ==
  [][lookup'.op = "get_node" =>
       lookup'.node = IF DOMAIN ring = {} THEN NoNode
                      ELSE FirstAtOrAfter(ring, hash_key(lookup'.key))]_vars

\* The smaller of two numbers.
Least(a, b) == IF a <= b THEN a ELSE b

\* The distinct owners of ring r in clockwise order from the position
\* get_node(k) starts at.
Clockwise(r, k) ==
  LET sk == sorted(DOMAIN r)
      idx == bisect_right(sk, hash_key(k))
      at(o) == Min({i \in 0..(Len(sk) - 1) :
                     r[sk[((idx + i) % Len(sk)) + 1]] = o})
      owners == {r[h] : h \in DOMAIN r}
  IN  IF DOMAIN r = {} THEN <<>>
      ELSE [j \in 1..Cardinality(owners) |->
              CHOOSE o \in owners :
                Cardinality({q \in owners : at(q) < at(o)}) = j - 1]

\* C24: get_nodes_for_replication(key, n) returns, for every n from 0 on, the
\* first min(n, number of distinct nodes) distinct owners in clockwise order
\* starting with get_node(key), and the empty list on an empty ring.
C24_ReplicationList ==
  [][lookup'.op = "get_nodes_for_replication" =>
       LET cw == Clockwise(ring, lookup'.key)
       IN  /\ lookup'.nodes = SubSeq(cw, 1, Least(lookup'.n, Len(cw)))
           /\ lookup'.nodes # <<>> =>
                lookup'.nodes[1] = get_node(ring, lookup'.key)]_vars

\* C25: removing node N from the ring changes get_node(k) for exactly the
\* keys whose primary was N, and adding N back gives every key the primary it
\* had before the removal.
C25_MinimalRemapping ==
  [][lookup'.op = "remove_node" =>
       \A k \in RingKeys :
         /\ get_node(ring', k) # get_node(ring, k)
              <=> get_node(ring, k) = lookup'.node
         /\ get_node(add_node(ring', lookup'.node), k) = get_node(ring, k)]_vars

\* C25 witness: a node has been removed from a ring that still holds another
\* node; some key had the removed node as primary and some key had not.
C25_Witness ==
  LET before == add_node(ring, lookup.node)
  IN  /\ lookup.op = "remove_node"
      /\ healthy_nodes # {}
      /\ \E k \in RingKeys : get_node(before, k) = lookup.node
      /\ \E k \in RingKeys : get_node(before, k) # lookup.node

\* ConsistentHashRing(ids) under the colliding _hash: the nodes are added in
\* the order of the list.
RECURSIVE tie_ring(_)
tie_ring(ids) ==
  IF ids = <<>> THEN EmptyMap
  ELSE LET n == ids[Len(ids)]
       IN  add_points(tie_ring(SubSeq(ids, 1, Len(ids) - 1)), n, TiePoints(n))

\* C26: whatever add_node and remove_node calls produced the membership,
\* get_node and get_nodes_for_replication answer every key as the ring built
\* from that membership alone does, and remove_node(id) removes all and only
\* the points owned by id, also when virtual points of different nodes have
\* the same hash.
C26_RingDeterminism ==
  /\ [](LET fresh == tie_ring(sorted(healthy_nodes))
        IN  \A k \in RingKeys :
              /\ get_node(ring, k) = get_node(fresh, k)
              /\ get_nodes_for_replication(ring, k, 2)
                   = get_nodes_for_replication(fresh, k, 2))
  /\ [][lookup'.op = "remove_node" =>
          ring' = [h \in {x \in DOMAIN ring : ring[x] # lookup'.node} |->
                     ring[h]]]_vars

\* Key k was last written as a member of an update() that has returned.
AckedBulk(k) == last[k].kind = "SET" /\ last[k].bulk /\ last[k].ack

\* C27: once update(map) has returned, every member is in the DurableMap with
\* its value, and every Store constructed over the files after a crash reads
\* that value for every member that was not written again.
C27_BulkDurability ==
  (Both /\ Ready) =>
    \A k \in Keys :
      AckedBulk(k) =>
        /\ Lookup(load_all(db), k) = last[k].val
        /\ Lookup(data, k) = last[k].val

\* The step constructs a Store with both WAL and DurableMap attached.
Recovers == Both /\ proc # "up" /\ proc' = "up"

\* C28: a Store constructed with WAL and DurableMap holds the DurableMap
\* snapshot with the surviving WAL entries applied on top of it in file
\* order.
C28_RecoveryRefinement ==
  [][Recovers => data' = apply_entries(load_all(db), replay(walFile))]_vars

\* C29: when recovery has finished the WAL is empty and the DurableMap holds
\* exactly the keys and values of the recovered in-memory map.
C29_RecoveryReconciles ==
  [][Recovers => (walFile' = <<>> /\ load_all(db') = data')]_vars

\* The read-repair task t ends in this step: its loop has left the last
\* peer and the node that runs it is still up.
Finishes(t) ==
  /\ t \in repairs /\ nup'[t.node]
  /\ \A u \in repairs' : u.id # t.id

\* C30: a GET at a node answers with the node's local value and leaves the
\* node's own store alone; a GET that finds no value sends nothing to the
\* peers; and when a read-repair task has finished, every peer that runs
\* holds the value that was read.
C30_ReadRepair ==
  /\ [][\A n \in Nodes, ok \in BOOLEAN :
          node_get(n, PoolKey, ok) =>
            /\ ndata' = ndata
            /\ nget'.status = StatusOf(ok)
            /\ ok => nget'.value = Lookup(ndata[n], PoolKey)
            /\ Lookup(ndata[n], PoolKey) = NULL => repairs' = repairs]_vars
  /\ [][\A t \in repairs :
          Finishes(t) =>
            \A p \in peers[t.node] :
              nup'[p] => Lookup(ndata'[p], t.key) = t.value]_vars

\* The pair of nodes that the next sync_nodes call of the iteration compares.
SyncPair == pairs(sorted(aesnap))[aei]

\* C31: one sync_nodes(i, j) with every request answered and no other write:
\* the three divergence sets are pairwise disjoint and cover exactly the keys
\* on which the two nodes differ; a key only on i is copied to j, a key only
\* on j is copied to i, a conflicting key ends with i's value on both, no
\* value that i held is changed, nothing is written when the roots are
\* equal, and afterwards the two nodes hold identical data.
C31_PairReconciliation ==
  [][aei >= 1 =>
       LET i == SyncPair[1]
           j == SyncPair[2]
           div == get_divergent_keys(ndata[i], ndata[j])
       IN  /\ div.only_in_self \cap div.only_in_other = {}
           /\ div.only_in_self \cap div.different_values = {}
           /\ div.only_in_other \cap div.different_values = {}
           /\ div.only_in_self \cup div.only_in_other \cup div.different_values
                = {k \in Keys : Lookup(ndata[i], k) # Lookup(ndata[j], k)}
           /\ \A k \in div.only_in_self : Lookup(ndata'[j], k) = ndata[i][k]
           /\ \A k \in div.only_in_other : Lookup(ndata'[i], k) = ndata[j][k]
           /\ \A k \in div.different_values :
                /\ Lookup(ndata'[i], k) = ndata[i][k]
                /\ Lookup(ndata'[j], k) = ndata[i][k]
           /\ \A k \in DOMAIN ndata[i] : Lookup(ndata'[i], k) = ndata[i][k]
           /\ get_root_hash(ndata[i]) = get_root_hash(ndata[j]) =>
                ndata' = ndata
           /\ ndata'[i] = ndata'[j]
           /\ \A n \in Nodes \ {i, j} : ndata'[n] = ndata[n]]_vars

\* C31 witness: sync_nodes(1, 2) has run on two nodes that had a conflicting
\* key and a key held by one of them only, and has left them equal.
C31_Witness ==
  /\ aesnap = Nodes /\ cycles = 0 /\ aei = 2
  /\ \E k \in Keys :
       /\ k \in DOMAIN ndata0[1] /\ k \in DOMAIN ndata0[2]
       /\ ndata0[1][k] # ndata0[2][k]
       /\ ndata[2][k] = ndata0[1][k]
  /\ \E k \in Keys :
       /\ k \in DOMAIN ndata0[2] /\ k \notin DOMAIN ndata0[1]
       /\ Lookup(ndata[1], k) = ndata0[2][k]
  /\ ndata[1] = ndata[2]

\* No Gateway handler sends a request for a key to node n.
NotRouted(n) ==
  \A k \in Keys :
    /\ set_route(k).node # n
    /\ delete_route(k).node # n
    /\ n \notin Range(get_nodes_for_replication(ring, k, 2))

\* Node n is in the MembershipView and on the ring.
Member(n) == n \in healthy_nodes /\ n \in {ring[h] : h \in DOMAIN ring}

\* Node n is neither in the MembershipView nor on the ring.
Removed(n) == n \notin healthy_nodes /\ n \notin {ring[h] : h \in DOMAIN ring}

\* C32: a node that is unreachable from some point on is eventually out of
\* the MembershipView and the ring for good, and no request is routed to it
\* from then on; a node that is reachable from some point on is eventually
\* in the MembershipView and the ring for good; and the monitor's visit to a
\* node (once per heartbeat round) leaves it in the view exactly if it
\* answered.
C32_MembershipLiveness ==
  /\ \A n \in Nodes : <>[](~nup[n]) => <>[](Removed(n) /\ NotRouted(n))
  /\ \A n \in Nodes : <>[](nup[n]) => <>[]Member(n)
  /\ [][\A n \in Nodes :
          (hci = n /\ hci' # hci) =>
            IF nup[n] THEN Member(n)' ELSE Removed(n)']_vars

\* C32 witness: one node has stopped and the monitor has removed it, another
\* has been started again and is in the view and on the ring.
C32_Witness ==
  \E n \in Nodes : \E m \in Nodes \ {n} :
    /\ ~nup[n] /\ Removed(n) /\ NotRouted(n)
    /\ nup[m] /\ peers[m] = {} /\ Member(m)

\* Thread t is between lock_multiple's acquire and release of key k's lock:
\* inside the critical section of k.
Inside(t, k) == op[t].kind = "LOCK_MULTIPLE" /\ k \in Held(t)

\* Thread t has been given key k's lock object and has not released it yet.
Uses(t, k) == op[t].kind = "LOCK_MULTIPLE" /\ k \in Range(op[t].keys)

\* C33: cleanup_unused_locks deletes only locks that no thread holds or is
\* about to acquire, and at every moment at most one thread is inside the
\* critical section of a key.
C33_LockReapingSafe ==
  /\ [](\A k \in LockKeys : \A t \in Threads : \A u \in Threads \ {t} :
          ~(Inside(t, k) /\ Inside(u, k)))
  /\ [][\A k \in (DOMAIN locks) \ (DOMAIN locks') :
          \A t \in Threads : ~Uses(t, k)]_vars

\* The log write of worker w's store call fails in this step.
WalFails(w) ==
  pc[w] \in {"set_wal", "delete_wal", "clear_wal"} /\ pc'[w] = "idle"

\* Worker w finishes the request it took in this step.
Finishing(w) ==
  /\ wst[w] = "got" /\ wst'[w] = "loop"
  /\ cur[w].operation \in {"SET", "DELETE", "CLEAR"}

\* C34: when the log write of a set, delete or clear fails with an I/O
\* error, the in-memory map and the DurableMap are unchanged and the key
\* lock (the global lock for clear) is released; the worker records the
\* error in the request, sets its event and goes on with its loop; and the
\* submitter gets the error.
C34_WalFailureLeavesState ==
  /\ [][\A w \in Workers :
          WalFails(w) =>
            /\ data' = data /\ db' = db
            /\ IF op[w].kind = "CLEAR" THEN globalLock'.owner # w
               ELSE locks'[op[w].key].owner # w
            /\ wrun'[w] = wrun[w] /\ wst'[w] = "got"]_vars
  /\ [][\A w \in Workers :
          (Finishing(w) /\ Raised(w)) =>
            /\ wrun'[w] = wrun[w]
            /\ creq[cur[w].by].id = cur[w].id =>
                 /\ creq'[cur[w].by].event
                 /\ creq'[cur[w].by].error = "OSError"]_vars
  /\ [](\A c \in Clients :
          (cpc[c] = "idle" /\ creq[c].event /\ creq[c].error # NULL) =>
            cout[c] = "Exception")

\* C34 witness: a log write failed half-way, the submitter of a later
\* request got True, and that request's line follows the torn one.
C34_Witness ==
  /\ \E c \in Clients :
       cpc[c] = "idle" /\ creq[c].event /\ cout[c] = "True"
  /\ \E i \in 1..Len(walFile) : \E j \in 1..Len(walFile) :
       i < j /\ walFile[i] = TornLine /\ Parses(walFile[j])

\* The i-th request of client c is in the queue.
Enqueued(c, i) ==
  \E x \in 1..Len(queue) : queue[x].by = c /\ queue[x].id = i

\* The i-th request of client c is the one worker w has taken.
Taken(w, c, i) == cur[w].by = c /\ cur[w].id = i

\* C35: a request that was enqueued is eventually taken from the queue, by
\* one worker only, and the worker that took it lets go of it only when it
\* has executed it, and sets its event - also when its submitter has given
\* up with Timeout and when stop() is called while it is in the queue.
C35_NoRequestLost ==
  /\ \A c \in Clients : \A i \in 1..MaxSubmits :
       Enqueued(c, i) ~> ~Enqueued(c, i)
  /\ [](\A c \in Clients : \A i \in 1..MaxSubmits :
          Cardinality({x \in 1..Len(queue) :
                         queue[x].by = c /\ queue[x].id = i})
            + Cardinality({w \in Workers : Taken(w, c, i)}) <= 1)
  /\ [][\A c \in Clients : \A i \in 1..MaxSubmits : \A w \in Workers :
          (Taken(w, c, i) /\ ~Taken(w, c, i)') =>
            /\ Applied(w)
            /\ creq[c].id = i => creq'[c].event]_vars

\* Thread t is running a set, delete or clear that its caller issued itself,
\* not one that update() makes.
OwnCall(t) == Mutation(t) /\ ~op[t].bulk /\ pc[t] # "idle"

\* C36: while update() has the WAL disabled, only the set calls update()
\* itself makes go unlogged: a set, delete or clear of another thread that
\* changes the map during that window has written its log line first; and
\* when no update() is in progress the WAL is enabled again.
C36_UpdateWindowOwnMembers ==
  /\ \A t \in Threads :
       (OwnCall(t) /\ cfgWal /\ Has(eff[t], "mem")) =>
         /\ Has(eff[t], "wal")
         /\ Pos(eff[t], "wal") < Pos(eff[t], "mem")
  /\ \A t \in Threads :
       (op[t].kind = "SET" /\ op[t].bulk /\ pc[t] # "idle") =>
         ~Has(eff[t], "wal")
  /\ (cfgWal /\ ~WindowOpen) => walEnabled

\* Several threads call set, delete and clear (never update) on one Store
\* that has a WAL and a DurableMap; the log is not truncated, so the state
\* at the last truncation is the empty Store of Init.
NextClear ==
  \E t \in Threads :
    \/ \E k \in Keys, v \in Vals : set_acquire(t, k, v)
    \/ \E k \in Keys : delete_acquire(t, k)
    \/ clear_acquire(t)
    \/ set_wal(t) \/ set_mem(t) \/ set_db(t) \/ set_ret(t)
    \/ delete_chk(t) \/ delete_wal(t) \/ delete_mem(t) \/ delete_db(t)
    \/ delete_ret(t)
    \/ clear_wal(t) \/ clear_mem(t) \/ clear_db(t) \/ clear_ret(t)

SpecClear == InitBulk /\ [][NextClear]_vars

\* C37: when no call is in progress, replaying the log in file order on the
\* empty Store gives the in-memory map, and the DurableMap holds that map
\* too - for every interleaving of set, delete and clear.
C37_WalOrderIsMemoryOrder ==
  AllIdle =>
    /\ apply_entries(EmptyMap, replay(walFile)) = data
    /\ load_all(db) = data

\* One client GET of PoolKey at a node of the full mesh and the read-repair
\* work it starts; no node stops, every request is answered in time.
RepairStep ==
  \/ \E t \in repairs : repair_get(t, TRUE)
  \/ \E t \in repairs : repair_set(t, TRUE)

NextStorm ==
  \/ nget = NoRead /\ \E n \in Nodes : node_get(n, PoolKey, TRUE)
  \/ RepairStep

SpecStorm == InitRepair /\ [][NextStorm]_vars

SpecStormLive == SpecStorm /\ WF_vars(RepairStep)

\* C38: the read-repair tasks that one client GET brings about stay below
\* every bound put on them (here MaxReads), and eventually no read-repair
\* task is pending and the copies of the key stay as they are.
C38_ReadRepairQuiesces ==
  /\ [](nread < MaxReads)
  /\ <>[](repairs = {})
  /\ <>[][ndata' = ndata]_vars

\* Every node of the full mesh holds PoolKey; a client sends one DELETE of it
\* to a node, clients read it at the nodes, a node may be stopped and started
\* again, and the anti-entropy loop runs after the DELETE while all nodes
\* are up. No client
\* ever sends a SET, and one client GET is sent.
InitTombstone ==
  /\ InitStore /\ ~cfgWal /\ ~cfgDb
  /\ InitNodes
  /\ InitGateway
  /\ peers = AllPeers
  /\ \E v \in Vals : ndata = [n \in Nodes |-> Put(EmptyMap, PoolKey, v)]
  /\ InitAntiEntropy

AllUp == \A n \in Nodes : nup[n]

NextTombstone ==
  \/ \E n \in Nodes : client_delete(n, PoolKey, TRUE)
  \/ \E t \in tasks : replicate(t)
  \/ \E m \in msgs :
       \/ peer_request(m, TRUE, FALSE)
       \/ ~nup[m.to] /\ peer_unreachable(m)
  \/ nextId = 1 /\ AllUp /\ \E n \in Nodes : node_stop(n)
  \/ Quiet /\ \E n \in Nodes : node_start(n)
  \/ nget = NoRead /\ \E n \in Nodes : node_get(n, PoolKey, TRUE)
  \/ \E t \in repairs : repair_get(t, nup[Head(t.rest)])
  \/ \E t \in repairs : repair_set(t, TRUE)
  \/ nextId > 1 /\ AllUp /\ anti_entropy_begin
  \/ AllUp /\ anti_entropy_sync

SpecTombstone == InitTombstone /\ [][NextTombstone]_vars

\* No client has sent a SET.
NoSetIssued == \A r \in 1..(nextId - 1) : nresp[r].op # "SET"

\* C39: the key a node has deleted (every node held it at the start, so a
\* node without it has applied a DELETE) is not put back on that node by
\* anti-entropy or by read-repair as long as no client has sent a SET.
C39_DeletesStayDeleted ==
  [][\A n \in Nodes :
       (NoSetIssued /\ Lookup(ndata[n], PoolKey) = NULL) =>
         Lookup(ndata'[n], PoolKey) = NULL]_vars

\* Some node the Gateway takes for healthy runs and holds the written value.
HealthyHolder ==
  \E n \in healthy_nodes : nup[n] /\ Lookup(ndata[n], PoolKey) = gwrote

\* C40: once the Gateway has acknowledged SET(k, v) and no later write, a GET
\* of k through the Gateway that is answered returns v as long as a healthy
\* node holds v - whatever nodes have stopped, restarted and been added back
\* to the ring in between.
C40_ReadYourWrites ==
  [][(gateway_get(PoolKey) /\ gwrote # NULL /\ HealthyHolder
        /\ gresp'.status = 200) =>
       gresp'.value = gwrote]_vars

====
